---- MODULE Spec2Model ----
(***************************************************************************)
(* A model of the whatsmeow session runtime: the Client and its methods    *)
(* (socket slot, expected-disconnect flag, auto-reconnect, inbound router, *)
(* handler queue, event bus), the stream-error handlers of connection      *)
(* events, and the request-id use of user.go.                              *)
(*                                                                         *)
(* Goroutines are modelled by program counters; a critical section that    *)
(* no other goroutine can observe is one action.  The parts of the         *)
(* repository that are not among the source files (the socket package,     *)
(* sendIQ, receiveResponse, clearResponseWaiters, generateRequestID) are   *)
(* modelled from the specification's words.                                *)
(***************************************************************************)
EXTENDS Integers, Sequences, FiniteSets, TLC

(***************************************************************************)
(* Bounds of the model.                                                    *)
(***************************************************************************)
\* What the environment and the application do to the session over a run: calls
\* of the API, frames from the server, closes of the transport and failed
\* handshakes.  Everything else the session does by itself, so the number of
\* these inputs bounds the sockets, the queue's traffic and every counter.
MaxInputs == 4         \* inputs of a run of Spec
MaxIQInputs == 3       \* inputs of a run of SpecIQ
MaxQueueInputs == 4    \* inputs of a run of SpecQueue
MaxOverflowInputs == 5 \* inputs of a run of SpecOverflow
MaxBusInputs == 5      \* inputs of a run of SpecBus
MaxAutoInputs == 5     \* inputs of a run of SpecAuto
MaxAuthInputs == 4     \* inputs of a run of SpecAuth
MaxLogoutInputs == 3   \* inputs of a run of SpecLogout
MaxBusIdInputs == 5    \* inputs of a run of SpecBusIds
MaxRouterInputs == 4   \* inputs of a run of SpecRouter
MaxDeviceInputs == 2   \* inputs of a run of SpecDevices
MaxDeviceEntries == 2  \* children of a <device-list> of a usync response
MaxLockInputs == 4     \* inputs of a run of SpecLocks
MaxPanicInputs == 5    \* inputs of a run of SpecPanic
MaxCallers == 2        \* application goroutines that call sendIQ or usync
MaxQueue == 2          \* cap of the handler queue depth explored

\* const handlerQueueSize = 2048
handlerQueueSize == 2048

\* The depth the model explores: the program's, capped by the bound.
QueueDepth == IF handlerQueueSize < MaxQueue THEN handlerQueueSize ELSE MaxQueue

(***************************************************************************)
(* Helpers.                                                                *)
(***************************************************************************)
Range(f) == {f[x] : x \in DOMAIN f}

EmptyMap == [x \in {} |-> 0]

MapPut(m, k, v) == [x \in (DOMAIN m) \cup {k} |-> IF x = k THEN v ELSE m[x]]

MapDel(m, k) == [x \in (DOMAIN m) \ {k} |-> m[x]]

Digits == <<"0", "1", "2", "3", "4", "5", "6", "7", "8", "9">>

\* strconv.FormatUint(n, 10) / fmt's %d of a non-negative number
RECURSIVE FormatUint(_)
FormatUint(n) ==
    IF n < 10 THEN <<Digits[n + 1]>>
    ELSE FormatUint(n \div 10) \o <<Digits[(n % 10) + 1]>>

\* fmt.Sprintf("%d.%d-", randomBytes[0], randomBytes[1])
UniqueIDOf(b) == FormatUint(b[1]) \o <<".">> \o FormatUint(b[2]) \o <<"-">>

(***************************************************************************)
(* Nodes and events.                                                       *)
(***************************************************************************)
NoID == <<>>

\* A decoded node: tag, the id attribute, the code attribute and the type of
\* its conflict child.  seq (arrival number) and sock (the socket whose read
\* task decoded it) are history fields.
Node(tag, id, code, conflict) ==
    [tag |-> tag, id |-> id, code |-> code, conflict |-> conflict, seq |-> 0, sock |-> 0]

NoNode == Node("", NoID, "", "")

\* A <failure reason="..."/> node
FailureNode(reason) == [tag |-> "failure", id |-> NoID, code |-> "", conflict |-> "",
                        seq |-> 0, sock |-> 0, reason |-> reason]

Stamp(f, n, s) == [f EXCEPT !.seq = n, !.sock = s]

\* An event handed to dispatchEvent; sock and seq are history fields: the socket
\* it is about and the node that caused it (0: none)
Evt(type, onConnect, s, n) == [type |-> type, onConnect |-> onConnect, sock |-> s, seq |-> n]

VARIABLES
    socket,                 \* cli.socket: 0 is nil, else the socket's number
    sockets,                \* every NoiseSocket created so far
    socketLock,             \* cli.socketLock: "none" or the Connect caller holding it
    expectedDisconnectVal,  \* cli.expectedDisconnectVal
    EnableAutoReconnect,    \* cli.EnableAutoReconnect
    AutoReconnectErrors,    \* cli.AutoReconnectErrors
    IsLoggedIn,             \* cli.IsLoggedIn
    StoreID,                \* cli.Store.ID: "nil" or "jid"
    responseWaiters,        \* cli.responseWaiters: request id -> waiting caller
    handlerQueue,           \* cli.handlerQueue
    pushers,                \* detached goroutines blocked on a full handlerQueue
    worker,                 \* the handlerQueueLoop goroutine of each socket
    uniqueID,               \* cli.uniqueID
    idCounter,              \* cli.idCounter
    callers,                \* application goroutines inside sendIQ / usync
    eventHandlers,          \* cli.eventHandlers
    nextHandlerID,          \* the package variable nextHandlerID
    ehReaders,              \* read holders of cli.eventHandlersLock
    dispatchers,            \* goroutines inside dispatchEvent
    adders,                 \* goroutines inside AddEventHandler, before the lock
    appPc,                  \* the application goroutine calling Connect/Disconnect
    tasks,                  \* spawned goroutines, counted per program counter
    autoLocal,              \* autoReconnect goroutines inside cli.AutoReconnectErrors++:
                            \* the bag of the values they have loaded
    events,                 \* history: every event handed to dispatchEvent
    arrived,                \* history: frames decoded so far
    invoked,                \* history: seq of every node a handler was started for
    hist,                   \* history: what the claims speak about
    budget                  \* inputs the run may still take

sockVars == <<socket, sockets, socketLock, expectedDisconnectVal>>
cliVars == <<EnableAutoReconnect, AutoReconnectErrors, IsLoggedIn, StoreID>>
iqVars == <<responseWaiters, uniqueID, idCounter, callers>>
queueVars == <<handlerQueue, pushers, worker, invoked>>
busVars == <<eventHandlers, nextHandlerID, ehReaders, dispatchers, adders>>
taskVars == <<appPc, tasks, events, autoLocal>>

vars == <<sockVars, cliVars, iqVars, queueVars, busVars, taskVars, arrived, hist, budget>>

(***************************************************************************)
(* NewClient.                                                              *)
(***************************************************************************)
TaskPcs ==
    {"r.disc", "r.conn",                       \* the 515 goroutine of handleStreamError
     "a.start", "a.loop", "a.inc", "a.sleep",  \* autoReconnect
     "p.keys", "p.passive", "p.emit"}          \* the goroutine of handleConnectSuccess

NoHist ==
    [handled515 |-> {},   \* sockets whose stream:error 515 a handler has handled
     gotRemoved |-> {},   \* sockets that received stream:error 401 device_removed
     direct |-> {},       \* nodes that handleFrame queued itself
     spilled |-> {},      \* nodes that arrived while the queue was full
     answered |-> {},     \* request ids whose reply arrived while awaited
     issued |-> <<>>,     \* the request ids generated, in the order of generation
     disconnects |-> 0,   \* calls of Disconnect by the application
     dispatches |-> 0,    \* calls of dispatchEvent
     calls |-> {},        \* <<id, n>>: subscriber id was invoked by dispatch n
     finished |-> {},     \* the dispatches that returned, with the list they ranged over
     removes |-> 0,       \* calls of RemoveEventHandler
     lastRemove |-> [id |-> 0, ret |-> FALSE, at |-> 0, len |-> 0],   \* the last of them: its
                          \* argument and result, the index it found the id at, the list's length
     removed |-> {},      \* ids RemoveEventHandler returned true for
     successes |-> 0,     \* success nodes handled
     connected |-> 0,     \* Connected events emitted
     uploads |-> {},      \* <<dbCount, serverCount>> of every uploadPreKeys call
     streamEnds |-> {}]   \* ids of xmlstreamend nodes that arrived while the id was awaited

\* One more input is within the bound
Input ==
    /\ budget > 0
    /\ budget' = budget - 1

\* The handshake of a Connect succeeds, or fails (an input of the environment)
Handshake(ok) == IF ok THEN UNCHANGED budget ELSE Input

\* NewClient(deviceStore, log) with the two random bytes drawn from bytes, the
\* device store paired or not, and the EnableAutoReconnect the application
\* leaves or clears before it connects.  The application's goroutines that
\* are about to call sendIQ or usync are given by each specification.
NewClientIn(ids, bytes, stores, autos, inputs) ==
    /\ socket = 0
    /\ sockets = <<>>
    /\ socketLock = "none"
    /\ expectedDisconnectVal = 0
    /\ EnableAutoReconnect \in autos
    /\ AutoReconnectErrors = 0
    /\ IsLoggedIn = FALSE
    /\ StoreID \in stores
    /\ responseWaiters = EmptyMap
    /\ handlerQueue = <<>>
    /\ pushers = {}
    /\ worker = <<>>
    /\ uniqueID \in {UniqueIDOf(b) : b \in bytes}
    /\ idCounter = 0
    /\ eventHandlers = <<>>
    /\ nextHandlerID \in ids
    /\ ehReaders = 0
    /\ dispatchers = {}
    /\ adders = {}
    /\ appPc = "idle"
    /\ tasks = [p \in TaskPcs |-> 0]
    /\ autoLocal = EmptyMap
    /\ events = {}
    /\ arrived = 0
    /\ invoked = <<>>
    /\ hist = NoHist
    /\ budget = inputs

\* NewClient in a process that has registered no event handler yet
NewClient(bytes, stores, autos, inputs) == NewClientIn({0}, bytes, stores, autos, inputs)

(***************************************************************************)
(* The socket package, as the specification describes it (4.A, 4.H, 5):    *)
(* a socket is open until the transport closes or Stop is called; its      *)
(* context is cancelled from then on; a close of the transport schedules   *)
(* one call of the client's onDisconnect with the remote flag.             *)
(***************************************************************************)
NewSocket == [st |-> "open", cb |-> "none", remote |-> FALSE]

\* NoiseSocket.IsConnected
IsConnected(s) == sockets[s].st = "open"

\* NoiseSocket.Context().Done()
ContextDone(s) == sockets[s].st # "open"

\* NoiseSocket.Stop: a stopped socket and one whose transport closed differ in
\* nothing the client can observe (not connected, context cancelled)
Stop(ss, s) == [ss EXCEPT ![s].st = "dead"]

\* The transport of socket s closes, by the server (remote) or by a local
\* transport failure: the read task ends and the callback is scheduled.
SocketClosed(s, remote) ==
    /\ Input
    /\ sockets[s].st = "open"
    /\ sockets' = [sockets EXCEPT ![s] = [st |-> "dead", cb |-> "pending", remote |-> remote]]
    /\ UNCHANGED <<socket, socketLock, expectedDisconnectVal>>
    /\ UNCHANGED <<cliVars, iqVars, queueVars, busVars, taskVars, arrived, hist>>

\* Store.Delete: drops all session state, the device identity included
StoreDelete == StoreID' = "nil"

(***************************************************************************)
(* Response waiters (request/response correlator, 4.E).                    *)
(***************************************************************************)
EmptyChan == [st |-> "empty", node |-> NoNode]

ClosedChan == [st |-> "closed", node |-> NoNode]

FullChan(node) == [st |-> "full", node |-> node]

\* clearResponseWaiters: every outstanding waiter is signalled, the map is emptied
clearResponseWaiters ==
    /\ callers' = [c \in DOMAIN callers |->
                     IF c \in Range(responseWaiters)
                     THEN [callers[c] EXCEPT !.chan = ClosedChan]
                     ELSE callers[c]]
    /\ responseWaiters' = EmptyMap

\* receiveResponse: the node's id matches an outstanding waiter
receiveResponse(node) == node.id # NoID /\ node.id \in DOMAIN responseWaiters

\* the delivery receiveResponse makes when it returns true
deliverResponse(node) ==
    /\ callers' = [callers EXCEPT ![responseWaiters[node.id]].chan = FullChan(node)]
    /\ responseWaiters' = MapDel(responseWaiters, node.id)

(***************************************************************************)
(* Spawned goroutines, counted per program counter.                        *)
(***************************************************************************)
Spawned(t, pc) == [t EXCEPT ![pc] = @ + 1]

Moved(t, from, to) == [[t EXCEPT ![from] = @ - 1] EXCEPT ![to] = @ + 1]

Ended(t, pc) == [t EXCEPT ![pc] = @ - 1]

\* The values goroutines hold in registers, as a bag: value -> how many hold it
BagAdd(b, v) == IF v \in DOMAIN b THEN [b EXCEPT ![v] = @ + 1] ELSE MapPut(b, v, 1)

BagDel(b, v) == IF b[v] = 1 THEN MapDel(b, v) ELSE [b EXCEPT ![v] = @ - 1]

(***************************************************************************)
(* Connect, Disconnect, onDisconnect.                                      *)
(***************************************************************************)
\* expectDisconnect / resetExpectedDisconnect / isExpectedDisconnect
isExpectedDisconnect == expectedDisconnectVal = 1

\* unlockedDisconnect
unlockedDisconnect ==
    IF socket # 0
    THEN /\ sockets' = Stop(sockets, socket)
         /\ socket' = 0
    ELSE UNCHANGED <<socket, sockets>>

\* Connect finds a socket that is still connected: ErrAlreadyConnected
AlreadyConnected == socket # 0 /\ IsConnected(socket)

\* Connect that neither returns ErrAlreadyConnected nor tears the old socket down
ConnectBegin_NoTeardown(k) ==
    /\ socketLock = "none"
    /\ expectedDisconnectVal' = 0
    /\ socketLock' = k
    /\ UNCHANGED <<socket, sockets>>

\* Connect that tears down whatever socket it finds, live or not
ConnectBegin_TearsDownLive(k) ==
    /\ socketLock = "none"
    /\ unlockedDisconnect
    /\ expectedDisconnectVal' = 0
    /\ socketLock' = k

\* Connect, from taking the lock to resetExpectedDisconnect; caller k keeps
\* the lock unless ErrAlreadyConnected is returned.
ConnectBegin(k) ==
    /\ socketLock = "none"
    /\ IF AlreadyConnected
       THEN UNCHANGED sockVars
       ELSE /\ unlockedDisconnect
            /\ expectedDisconnectVal' = 0
            /\ socketLock' = k

IdleWorker == [st |-> "idle", node |-> NoNode]

\* Connect, from NewFrameSocket to the return: the handshake fails, or it
\* installs the new socket and the loops are spawned on its context.
ConnectEnd(k, ok) ==
    /\ socketLock = k
    /\ socketLock' = "none"
    /\ IF ok
       THEN /\ sockets' = Append(sockets, NewSocket)
            /\ socket' = Len(sockets) + 1
            /\ worker' = Append(worker, IdleWorker)
       ELSE UNCHANGED <<socket, sockets, worker>>
    /\ UNCHANGED expectedDisconnectVal

\* Disconnect: it returns at once when it reads cli.socket == nil (without the
\* lock), and else runs unlockedDisconnect under the lock.  unlockedDisconnect
\* tests the socket again, so the call has the effect of its locked part at
\* the moment that part runs, and waiting for the lock is not a state.
Disconnect ==
    /\ socket = 0 \/ socketLock = "none"
    /\ unlockedDisconnect
    /\ UNCHANGED <<socketLock, expectedDisconnectVal>>

\* onDisconnect without the test cli.socket == ns
onDisconnect_AnySocket(s) ==
    /\ sockets[s].cb = "pending"
    /\ socketLock = "none"
    /\ sockets' = [Stop(sockets, s) EXCEPT ![s].cb = "done"]
    /\ socket' = 0
    /\ clearResponseWaiters
    /\ IF ~isExpectedDisconnect /\ sockets[s].remote
       THEN /\ events' = events \cup {Evt("Disconnected", FALSE, s, 0)}
            /\ tasks' = Spawned(tasks, "a.start")
       ELSE UNCHANGED <<events, tasks>>
    /\ UNCHANGED <<socketLock, expectedDisconnectVal, uniqueID, idCounter, appPc, autoLocal>>
    /\ UNCHANGED <<cliVars, queueVars, busVars, arrived, hist, budget>>

\* onDisconnect without the test of remote
onDisconnect_IgnoresRemote(s) ==
    /\ sockets[s].cb = "pending"
    /\ socketLock = "none"
    /\ sockets' = [Stop(sockets, s) EXCEPT ![s].cb = "done"]
    /\ IF socket = s
       THEN /\ socket' = 0
            /\ clearResponseWaiters
            /\ IF ~isExpectedDisconnect
               THEN /\ events' = events \cup {Evt("Disconnected", FALSE, s, 0)}
                    /\ tasks' = Spawned(tasks, "a.start")
               ELSE UNCHANGED <<events, tasks>>
       ELSE UNCHANGED <<socket, responseWaiters, callers, events, tasks>>
    /\ UNCHANGED <<socketLock, expectedDisconnectVal, uniqueID, idCounter, appPc, autoLocal>>
    /\ UNCHANGED <<cliVars, queueVars, busVars, arrived, hist, budget>>

\* onDisconnect(ns, remote): ns.Stop(false) on a socket whose transport has
\* closed changes nothing observable, so the call is its locked part
onDisconnect(s) ==
    /\ sockets[s].cb = "pending"
    /\ socketLock = "none"
    /\ sockets' = [Stop(sockets, s) EXCEPT ![s].cb = "done"]
    /\ IF socket = s
       THEN /\ socket' = 0
            /\ clearResponseWaiters
            /\ IF ~isExpectedDisconnect /\ sockets[s].remote
               THEN /\ events' = events \cup {Evt("Disconnected", FALSE, s, 0)}
                    /\ tasks' = Spawned(tasks, "a.start")
               ELSE UNCHANGED <<events, tasks>>
       ELSE UNCHANGED <<socket, responseWaiters, callers, events, tasks>>
    /\ UNCHANGED <<socketLock, expectedDisconnectVal, uniqueID, idCounter, appPc, autoLocal>>
    /\ UNCHANGED <<cliVars, queueVars, busVars, arrived, hist, budget>>

(***************************************************************************)
(* The inbound router and the handler queue.                               *)
(***************************************************************************)
\* the keys of cli.nodeHandlers
nodeHandlers ==
    {"message", "receipt", "chatstate", "notification", "success", "failure",
     "stream:error", "iq", "ib"}

\* handleFrame that looks the tag up before it tries the response waiters
handleFrame_TagFirst(node) ==
    IF node.tag = "xmlstreamend"
    THEN UNCHANGED <<responseWaiters, callers, handlerQueue, pushers>>
    ELSE IF node.tag \in nodeHandlers
    THEN /\ IF Len(handlerQueue) < QueueDepth
            THEN /\ handlerQueue' = Append(handlerQueue, node)
                 /\ UNCHANGED pushers
            ELSE /\ pushers' = pushers \cup {node}
                 /\ UNCHANGED handlerQueue
         /\ UNCHANGED <<responseWaiters, callers>>
    ELSE IF receiveResponse(node)
    THEN /\ deliverResponse(node)
         /\ UNCHANGED <<handlerQueue, pushers>>
    ELSE UNCHANGED <<responseWaiters, callers, handlerQueue, pushers>>

\* handleFrame whose delivery leaves the waiter in the map
handleFrame_KeepsWaiter(node) ==
    IF node.tag = "xmlstreamend"
    THEN UNCHANGED <<responseWaiters, callers, handlerQueue, pushers>>
    ELSE IF receiveResponse(node)
    THEN /\ callers' = [callers EXCEPT ![responseWaiters[node.id]].chan = FullChan(node)]
         /\ UNCHANGED <<responseWaiters, handlerQueue, pushers>>
    ELSE IF node.tag \in nodeHandlers
    THEN /\ IF Len(handlerQueue) < QueueDepth
            THEN /\ handlerQueue' = Append(handlerQueue, node)
                 /\ UNCHANGED pushers
            ELSE /\ pushers' = pushers \cup {node}
                 /\ UNCHANGED handlerQueue
         /\ UNCHANGED <<responseWaiters, callers>>
    ELSE UNCHANGED <<responseWaiters, callers, handlerQueue, pushers>>

\* handleFrame without the test for xmlstreamend
handleFrame_NoStreamEnd(node) ==
    IF receiveResponse(node)
    THEN /\ deliverResponse(node)
         /\ UNCHANGED <<handlerQueue, pushers>>
    ELSE IF node.tag \in nodeHandlers
    THEN /\ IF Len(handlerQueue) < QueueDepth
            THEN /\ handlerQueue' = Append(handlerQueue, node)
                 /\ UNCHANGED pushers
            ELSE /\ pushers' = pushers \cup {node}
                 /\ UNCHANGED handlerQueue
         /\ UNCHANGED <<responseWaiters, callers>>
    ELSE UNCHANGED <<responseWaiters, callers, handlerQueue, pushers>>

\* handleFrame that drops the node when the queue is full
handleFrame_DropsOnFull(node) ==
    IF node.tag = "xmlstreamend"
    THEN UNCHANGED <<responseWaiters, callers, handlerQueue, pushers>>
    ELSE IF receiveResponse(node)
    THEN /\ deliverResponse(node)
         /\ UNCHANGED <<handlerQueue, pushers>>
    ELSE IF node.tag \in nodeHandlers
    THEN /\ IF Len(handlerQueue) < QueueDepth
            THEN handlerQueue' = Append(handlerQueue, node)
            ELSE UNCHANGED handlerQueue
         /\ UNCHANGED <<responseWaiters, callers, pushers>>
    ELSE UNCHANGED <<responseWaiters, callers, handlerQueue, pushers>>

\* handleFrame, from the decoded node on
handleFrame(node) ==
    IF node.tag = "xmlstreamend"
    THEN UNCHANGED <<responseWaiters, callers, handlerQueue, pushers>>
    ELSE IF receiveResponse(node)
    THEN /\ deliverResponse(node)
         /\ UNCHANGED <<handlerQueue, pushers>>
    ELSE IF node.tag \in nodeHandlers
    THEN /\ IF Len(handlerQueue) < QueueDepth
            THEN /\ handlerQueue' = Append(handlerQueue, node)
                 /\ UNCHANGED pushers
            ELSE /\ pushers' = pushers \cup {node}
                 /\ UNCHANGED handlerQueue
         /\ UNCHANGED <<responseWaiters, callers>>
    ELSE UNCHANGED <<responseWaiters, callers, handlerQueue, pushers>>

\* A node with a registered tag that is neither a stream end nor a reply
Tagged(f) ==
    /\ f.tag # "xmlstreamend"
    /\ f.tag \in nodeHandlers
    /\ ~(f.id # NoID /\ f.id \in DOMAIN responseWaiters)

\* What the arrival of frame f on socket s adds to the history
FrameHist(f, s) ==
    [hist EXCEPT
        !.gotRemoved = IF f.tag = "stream:error" /\ f.code = "401"
                          /\ f.conflict = "device_removed"
                       THEN @ \cup {s} ELSE @,
        !.direct = IF Tagged(f) /\ Len(handlerQueue) < QueueDepth
                   THEN @ \cup {arrived + 1} ELSE @,
        !.spilled = IF Tagged(f) /\ Len(handlerQueue) >= QueueDepth
                    THEN @ \cup {arrived + 1} ELSE @,
        !.answered = IF f.tag = "iq" /\ f.id # NoID /\ f.id \in DOMAIN responseWaiters
                     THEN @ \cup {f.id} ELSE @,
        !.streamEnds = IF f.tag = "xmlstreamend" /\ f.id # NoID
                          /\ f.id \in DOMAIN responseWaiters
                       THEN @ \cup {f.id} ELSE @]

\* The read task of an open socket decodes frame f and runs handleFrame inline
Frame(f) ==
    /\ Input
    /\ \E s \in DOMAIN sockets :
          /\ sockets[s].st = "open"
          /\ handleFrame(Stamp(f, arrived + 1, s))
          /\ hist' = FrameHist(f, s)
    /\ arrived' = arrived + 1
    /\ UNCHANGED <<sockVars, cliVars, uniqueID, idCounter, worker, invoked, busVars, taskVars>>

\* The detached goroutine of handleFrame: cli.handlerQueue <- node
PusherSend(node) ==
    /\ node \in pushers
    /\ Len(handlerQueue) < QueueDepth
    /\ handlerQueue' = Append(handlerQueue, node)
    /\ pushers' = pushers \ {node}
    /\ UNCHANGED <<sockVars, cliVars, iqVars, worker, invoked, busVars, taskVars, arrived, hist, budget>>

(***************************************************************************)
(* The tag handlers.                                                       *)
(***************************************************************************)
\* handleStreamError
handleStreamError(node) ==
    /\ IsLoggedIn' = FALSE
    /\ IF node.code = "515"
       THEN /\ tasks' = Spawned(tasks, "r.disc")
            /\ UNCHANGED <<expectedDisconnectVal, events, StoreID>>
       ELSE IF node.code = "401" /\ node.conflict = "device_removed"
       THEN /\ expectedDisconnectVal' = 1
            /\ events' = events \cup {Evt("LoggedOut", FALSE, node.sock, node.seq)}
            /\ StoreDelete
            /\ UNCHANGED tasks
       ELSE /\ events' = events \cup {Evt("StreamError", FALSE, node.sock, node.seq)}
            /\ UNCHANGED <<expectedDisconnectVal, StoreID, tasks>>
    /\ UNCHANGED AutoReconnectErrors

\* A handler whose code is outside the model's scope: no effect on the session
handleOther(node) ==
    UNCHANGED <<IsLoggedIn, expectedDisconnectVal, events, StoreID, tasks, AutoReconnectErrors>>

\* handleConnectFailure that emits and deletes first and sets the flag last
handleConnectFailure_FlagLast(node, pc) ==
    /\ IF node.reason = "401"
       THEN IF pc = "run"
            THEN /\ events' = events \cup {Evt("LoggedOut", TRUE, node.sock, node.seq)}
                 /\ StoreDelete
                 /\ UNCHANGED expectedDisconnectVal
            ELSE /\ expectedDisconnectVal' = 1
                 /\ UNCHANGED <<events, StoreID>>
       ELSE /\ events' = events \cup {Evt("ConnectFailure", FALSE, node.sock, node.seq)}
            /\ UNCHANGED <<expectedDisconnectVal, StoreID>>
    /\ UNCHANGED <<IsLoggedIn, tasks, AutoReconnectErrors>>

\* handleConnectFailure, in two steps when the reason is 401: expectDisconnect
\* (pc "run"), then the LoggedOut event and Store.Delete (pc "flagged")
handleConnectFailure(node, pc) ==
    /\ IF node.reason = "401"
       THEN IF pc = "run"
            THEN /\ expectedDisconnectVal' = 1
                 /\ UNCHANGED <<events, StoreID>>
            ELSE /\ events' = events \cup {Evt("LoggedOut", TRUE, node.sock, node.seq)}
                 /\ StoreDelete
                 /\ UNCHANGED expectedDisconnectVal
       ELSE /\ events' = events \cup {Evt("ConnectFailure", FALSE, node.sock, node.seq)}
            /\ UNCHANGED <<expectedDisconnectVal, StoreID>>
    /\ UNCHANGED <<IsLoggedIn, tasks, AutoReconnectErrors>>

\* handleConnectSuccess, up to the go statement
handleConnectSuccess(node) ==
    /\ AutoReconnectErrors' = 0
    /\ IsLoggedIn' = TRUE
    /\ tasks' = Spawned(tasks, "p.keys")
    /\ UNCHANGED <<expectedDisconnectVal, events, StoreID>>

\* cli.nodeHandlers[node.Tag](node), continued at pc
nodeHandler(node, pc) ==
    IF node.tag = "stream:error" THEN handleStreamError(node)
    ELSE IF node.tag = "success" THEN handleConnectSuccess(node)
    ELSE IF node.tag = "failure" THEN handleConnectFailure(node, pc)
    ELSE handleOther(node)

\* the handler of node, at pc, returns with this step
Returns(node, pc) == ~(node.tag = "failure" /\ node.reason = "401" /\ pc = "run")

(***************************************************************************)
(* handlerQueueLoop: one goroutine per successful Connect.                 *)
(***************************************************************************)
\* case node := <-cli.handlerQueue, and the call of the handler
WorkerTake(s) ==
    /\ worker[s].st = "idle"
    /\ handlerQueue # <<>>
    /\ worker' = [worker EXCEPT ![s] = [st |-> "run", node |-> Head(handlerQueue)]]
    /\ handlerQueue' = Tail(handlerQueue)
    /\ invoked' = Append(invoked, Head(handlerQueue).seq)
    /\ UNCHANGED <<sockVars, cliVars, iqVars, pushers, busVars, taskVars, arrived, hist, budget>>

\* the handler runs: to its return, or to its next step
WorkerFinish(s) ==
    /\ worker[s].st \in {"run", "flagged"}
    /\ nodeHandler(worker[s].node, worker[s].st)
    /\ worker' = [worker EXCEPT ![s] = IF Returns(worker[s].node, worker[s].st)
                                       THEN IdleWorker
                                       ELSE [@ EXCEPT !.st = "flagged"]]
    /\ hist' = IF worker[s].node.tag = "stream:error" /\ worker[s].node.code = "515"
               THEN [hist EXCEPT !.handled515 = @ \cup {worker[s].node.sock}]
               ELSE IF worker[s].node.tag = "success"
               THEN [hist EXCEPT !.successes = @ + 1]
               ELSE hist
    /\ UNCHANGED <<socket, sockets, socketLock, EnableAutoReconnect, iqVars>>
    /\ UNCHANGED <<handlerQueue, pushers, invoked, busVars, appPc, autoLocal, arrived, budget>>

\* The handler called by the loop panics.  handlerQueueLoop defers nothing
\* and calls recover nowhere, so the panic unwinds the loop's goroutine and,
\* reaching its top unrecovered, ends the program: the worker is gone.
WorkerPanic(s) ==
    /\ worker[s].st = "run"
    /\ worker' = [worker EXCEPT ![s] = [st |-> "panic", node |-> worker[s].node]]
    /\ UNCHANGED <<sockVars, cliVars, iqVars, handlerQueue, pushers, invoked>>
    /\ UNCHANGED <<busVars, taskVars, arrived, hist, budget>>

\* a panic has left handlerQueueLoop unrecovered: the program has ended
Crashed == \E s \in DOMAIN worker : worker[s].st = "panic"

\* case <-ctx.Done(): return
WorkerExit(s) ==
    /\ worker[s].st = "idle"
    /\ ContextDone(s)
    /\ worker' = [worker EXCEPT ![s] = [st |-> "exit", node |-> NoNode]]
    /\ UNCHANGED <<sockVars, cliVars, iqVars, handlerQueue, pushers, invoked>>
    /\ UNCHANGED <<busVars, taskVars, arrived, hist, budget>>

(***************************************************************************)
(* The reconnect goroutine of handleStreamError (code 515).                *)
(***************************************************************************)
\* cli.Disconnect()
R515Disconnect ==
    /\ tasks["r.disc"] > 0
    /\ Disconnect
    /\ tasks' = Moved(tasks, "r.disc", "r.conn")
    /\ UNCHANGED <<cliVars, iqVars, queueVars, busVars, appPc, autoLocal, events, arrived, hist, budget>>

\* cli.Connect()
R515ConnectBegin ==
    /\ tasks["r.conn"] > 0
    /\ ConnectBegin("r515")
    /\ tasks' = Ended(tasks, "r.conn")
    /\ UNCHANGED <<cliVars, iqVars, queueVars, busVars, appPc, autoLocal, events, arrived, hist, budget>>

R515ConnectEnd ==
    \E ok \in BOOLEAN :
       /\ Handshake(ok)
       /\ ConnectEnd("r515", ok)
       /\ UNCHANGED <<cliVars, iqVars, handlerQueue, pushers, invoked, busVars, taskVars, arrived, hist>>

(***************************************************************************)
(* autoReconnect.                                                          *)
(***************************************************************************)
\* autoReconnect that enters its loop whatever the configuration is
AutoStart_IgnoresConfig ==
    /\ tasks["a.start"] > 0
    /\ tasks' = Moved(tasks, "a.start", "a.loop")
    /\ UNCHANGED <<sockVars, cliVars, iqVars, queueVars, busVars, appPc, autoLocal, events, arrived, hist, budget>>

\* if !cli.EnableAutoReconnect || cli.Store.ID == nil { return }
AutoStart ==
    /\ tasks["a.start"] > 0
    /\ tasks' = IF ~EnableAutoReconnect \/ StoreID = "nil"
                THEN Ended(tasks, "a.start")
                ELSE Moved(tasks, "a.start", "a.loop")
    /\ UNCHANGED <<sockVars, cliVars, iqVars, queueVars, busVars, appPc, autoLocal, events, arrived, hist, budget>>

\* cli.AutoReconnectErrors++ is a load, an add and a store on a field that no
\* lock protects and that other autoReconnect goroutines and the handler of
\* the success node write too.  The load:
AutoLoad ==
    /\ tasks["a.loop"] > 0
    /\ autoLocal' = BagAdd(autoLocal, AutoReconnectErrors)
    /\ tasks' = Moved(tasks, "a.loop", "a.inc")
    /\ UNCHANGED <<sockVars, cliVars, iqVars, queueVars>>
    /\ UNCHANGED <<busVars, appPc, events, arrived, hist, budget>>

\* The store of the value loaded plus one; then the delay is computed from
\* the field and the goroutine sleeps (time is not part of the state).
AutoStore(v) ==
    /\ tasks["a.inc"] > 0
    /\ v \in DOMAIN autoLocal
    /\ AutoReconnectErrors' = v + 1
    /\ autoLocal' = BagDel(autoLocal, v)
    /\ tasks' = Moved(tasks, "a.inc", "a.sleep")
    /\ UNCHANGED <<sockVars, EnableAutoReconnect, IsLoggedIn, StoreID, iqVars, queueVars>>
    /\ UNCHANGED <<busVars, appPc, events, arrived, hist, budget>>

\* err := cli.Connect()
AutoConnectBegin ==
    /\ tasks["a.sleep"] > 0
    /\ ConnectBegin("auto")
    /\ tasks' = Ended(tasks, "a.sleep")
    /\ UNCHANGED <<cliVars, iqVars, queueVars, busVars, appPc, autoLocal, events, arrived, hist, budget>>

\* Connect returns: nil ends the loop, another error starts the next round
AutoConnectEnd ==
    \E ok \in BOOLEAN :
       /\ Handshake(ok)
       /\ ConnectEnd("auto", ok)
       /\ tasks' = IF ok THEN tasks ELSE Spawned(tasks, "a.loop")
       /\ UNCHANGED <<cliVars, iqVars, handlerQueue, pushers, invoked, busVars, appPc, autoLocal, events, arrived, hist>>

(***************************************************************************)
(* The goroutine of handleConnectSuccess.  The prekey store, the prekey    *)
(* requests and the threshold are described by the specification (4.F, 6). *)
(***************************************************************************)
MinPreKeyCount == 5

\* the counts the store and the server may report: below the threshold or not
PreKeyCounts == {MinPreKeyCount - 1, MinPreKeyCount}

\* uploadPreKeys whenever both counts were obtained
NeedsUpload_Always(dbErr, dbCount, serverErr, serverCount) ==
    ~dbErr /\ ~serverErr

\* the branch of handleConnectSuccess that calls uploadPreKeys
NeedsUpload(dbErr, dbCount, serverErr, serverCount) ==
    /\ ~dbErr
    /\ ~serverErr
    /\ (serverCount < MinPreKeyCount \/ dbCount < MinPreKeyCount)

\* UploadedPreKeyCount, getServerPreKeyCount and the upload
PostPreKeys(dbErr, dbCount, serverErr, serverCount) ==
    /\ tasks["p.keys"] > 0
    /\ hist' = IF NeedsUpload(dbErr, dbCount, serverErr, serverCount)
               THEN [hist EXCEPT !.uploads = @ \cup {<<dbCount, serverCount>>}]
               ELSE hist
    /\ tasks' = Moved(tasks, "p.keys", "p.passive")
    /\ UNCHANGED <<sockVars, cliVars, iqVars, queueVars, busVars>>
    /\ UNCHANGED <<appPc, events, autoLocal, arrived, budget>>

\* cli.SetPassive(false) returns, with an error or without
PostSetPassive(ok) ==
    /\ tasks["p.passive"] > 0
    /\ tasks' = Moved(tasks, "p.passive", "p.emit")
    /\ UNCHANGED <<sockVars, cliVars, iqVars, queueVars, busVars>>
    /\ UNCHANGED <<appPc, events, autoLocal, arrived, hist, budget>>

\* cli.dispatchEvent(&events.Connected{})
PostEmit ==
    /\ tasks["p.emit"] > 0
    /\ events' = events \cup {Evt("Connected", FALSE, 0, hist.connected + 1)}
    /\ hist' = [hist EXCEPT !.connected = @ + 1]
    /\ tasks' = Ended(tasks, "p.emit")
    /\ UNCHANGED <<sockVars, cliVars, iqVars, queueVars, busVars>>
    /\ UNCHANGED <<appPc, autoLocal, arrived, budget>>

(***************************************************************************)
(* The application goroutine.                                              *)
(***************************************************************************)
AppConnectBegin ==
    /\ appPc = "idle"
    /\ Input
    /\ ConnectBegin("app")
    /\ appPc' = IF AlreadyConnected THEN "idle" ELSE "connect"
    /\ UNCHANGED <<cliVars, iqVars, queueVars, busVars, tasks, events, autoLocal, arrived, hist>>

AppConnectEnd ==
    \E ok \in BOOLEAN :
       /\ Handshake(ok)
       /\ ConnectEnd("app", ok)
       /\ appPc' = "idle"
       /\ UNCHANGED <<cliVars, iqVars, handlerQueue, pushers, invoked, busVars, tasks, events, autoLocal, arrived, hist>>

\* cli.Disconnect()
AppDisconnect ==
    /\ appPc = "idle"
    /\ Input
    /\ Disconnect
    /\ hist' = [hist EXCEPT !.disconnects = @ + 1]
    /\ UNCHANGED <<cliVars, iqVars, queueVars, busVars, taskVars, arrived>>

(***************************************************************************)
(* The session's lifecycle: connects, disconnects, closes of the           *)
(* transport, stream errors and the handler queue.                         *)
(***************************************************************************)
LifeFrames ==
    {Node("stream:error", NoID, "515", ""),
     Node("stream:error", NoID, "401", "device_removed"),
     Node("stream:error", NoID, "401", "")}

PairedStore == {"jid"}

AnyStore == {"jid", "nil"}

OneSession == {<<7, 12>>}

Init ==
    /\ NewClient(OneSession, AnyStore, {TRUE}, MaxInputs)
    /\ callers = <<>>

Application ==
    \/ AppConnectBegin
    \/ AppConnectEnd
    \/ AppDisconnect

Transport ==
    \/ \E s \in DOMAIN sockets : \E remote \in BOOLEAN : SocketClosed(s, remote)
    \/ \E s \in DOMAIN sockets : onDisconnect(s)

Reconnect515 ==
    \/ R515Disconnect
    \/ R515ConnectBegin
    \/ R515ConnectEnd

AutoReconnect ==
    \/ AutoStart
    \/ AutoLoad
    \/ \E v \in DOMAIN autoLocal : AutoStore(v)
    \/ AutoConnectBegin
    \/ AutoConnectEnd

Worker ==
    \/ \E s \in DOMAIN worker : WorkerTake(s)
    \/ \E s \in DOMAIN worker : WorkerFinish(s)
    \/ \E s \in DOMAIN worker : WorkerExit(s)

Pushers == \E node \in pushers : PusherSend(node)

Next ==
    \/ Application
    \/ Transport
    \/ Reconnect515
    \/ AutoReconnect
    \/ Worker
    \/ Pushers
    \/ \E f \in LifeFrames : Frame(f)

Spec == Init /\ [][Next]_vars

(***************************************************************************)
(* Claims about the lifecycle, checked under Spec.                         *)
(***************************************************************************)
\* onDisconnect(s) runs in this step
OnDisconnectRan(s) == sockets[s].cb = "pending" /\ sockets'[s].cb = "done"

\* the Disconnected event onDisconnect emits for socket s
DisconnectedFor(s) == Evt("Disconnected", FALSE, s, 0)

\* C3: onDisconnect(socket, remote) emits Disconnected and schedules
\* autoReconnect if and only if the reported socket is the active one, remote
\* is true and the expected-disconnect flag is clear when it is inspected; in
\* every other case it emits nothing and schedules nothing.
C3_EventIffUnexpectedRemoteClose ==
    [][\A s \in DOMAIN sockets :
          OnDisconnectRan(s) =>
             IF socket = s /\ sockets[s].remote /\ expectedDisconnectVal = 0
             THEN /\ DisconnectedFor(s) \notin events
                  /\ events' = events \cup {DisconnectedFor(s)}
                  /\ tasks' = Spawned(tasks, "a.start")
             ELSE /\ events' = events
                  /\ tasks' = tasks]_vars

\* Both outcomes have happened: one socket's remote close was announced, and
\* another's was suppressed by the expected-disconnect flag.
C3_Witness ==
    \E s1, s2 \in DOMAIN sockets :
       /\ sockets[s1].cb = "done" /\ DisconnectedFor(s1) \in events
       /\ sockets[s2].cb = "done" /\ sockets[s2].remote
       /\ DisconnectedFor(s2) \notin events
       /\ s2 \in hist.gotRemoved

\* C4: once a stream:error 515 has been handled for a socket, no Disconnected
\* event is emitted for that socket, however the reconnect goroutine and the
\* onDisconnect of the server's close interleave.
C4_NoDisconnectedAfter515 ==
    [][\A s \in hist.handled515 :
          DisconnectedFor(s) \in events' => DisconnectedFor(s) \in events]_vars

\* C5: after a stream:error 401 device_removed the session emits
\* LoggedOut{onConnect:false} and deletes the store when the node is handled,
\* and the close of that socket neither emits Disconnected nor schedules
\* autoReconnect, in whatever order the node is handled and the close observed.
C5_DeviceRemovedNoReconnect ==
    [][/\ \A s \in DOMAIN worker :
             (/\ worker[s].st = "run" /\ worker'[s].st = "idle"
              /\ worker[s].node.tag = "stream:error" /\ worker[s].node.code = "401"
              /\ worker[s].node.conflict = "device_removed")
             => /\ Evt("LoggedOut", FALSE, worker[s].node.sock, worker[s].node.seq) \in events'
                /\ StoreID' = "nil"
       /\ \A s \in hist.gotRemoved :
             OnDisconnectRan(s) => (events' = events /\ tasks' = tasks)]_vars

\* the sockets that are connected
Live == {s \in DOMAIN sockets : IsConnected(s)}

\* C26: the socket slot is only read and written under the socket lock, so
\* a Disconnect that overlaps a Connect in progress does not return while
\* that Connect still holds the lock: it returns only after the socket the
\* Connect installs has been stopped.
C26_DisconnectWaitsForConnect ==
    [][AppDisconnect => socketLock = "none"]_vars

\* C12: in every reachable state at most one socket is live, and it is the
\* one in the slot; a new socket is installed only into an empty slot while
\* every earlier socket is stopped, under any interleaving of Connect,
\* Disconnect, onDisconnect, autoReconnect and the 515 reconnect goroutine.
C12_AtMostOneLiveSocket ==
    [][/\ Cardinality(Live) <= 1
       /\ Live \subseteq {socket}
       /\ Len(sockets') > Len(sockets) =>
             /\ socket = 0
             /\ Live = {}
             /\ socket' = Len(sockets')]_vars

\* A second socket was installed after the first one was stopped, while a
\* reconnect goroutine was still on its way.
C12_Witness ==
    /\ Len(sockets) >= 2
    /\ socket = Len(sockets)
    /\ Live = {socket}
    /\ \E pc \in {"r.conn", "a.sleep"} : tasks[pc] > 0

\* a goroutine calls Connect in this step / its Connect returns in this step
ConnectCalled == AppConnectBegin \/ R515ConnectBegin \/ AutoConnectBegin

ConnectReturned == AppConnectEnd \/ R515ConnectEnd \/ AutoConnectEnd

\* C14: Connect with a live socket in the slot returns ErrAlreadyConnected
\* and changes nothing (slot, sockets, expected-disconnect flag, worker
\* goroutines, waiters, queue); with a dead socket in the slot, or none, it
\* empties the slot first and then attempts a fresh connection, which
\* installs a new socket with its own worker or leaves the slot empty.
C14_ConnectOnLiveSocketIsNoOp ==
    [][/\ ConnectCalled =>
             IF socket # 0 /\ sockets[socket].st = "open"
             THEN /\ UNCHANGED <<sockVars, cliVars, iqVars, queueVars, busVars, events>>
                  /\ UNCHANGED <<arrived, hist>>
             ELSE /\ socket' = 0
                  /\ socketLock = "none" /\ socketLock' # "none"
                  /\ expectedDisconnectVal' = 0
                  /\ \A s \in DOMAIN sockets : sockets'[s].st = "dead"
                  /\ worker' = worker
       /\ ConnectReturned =>
             /\ socket = 0
             /\ socketLock # "none" /\ socketLock' = "none"
             /\ \/ UNCHANGED <<socket, sockets, worker>>
                \/ /\ socket' = Len(sockets) + 1
                   /\ sockets' = Append(sockets, NewSocket)
                   /\ worker' = Append(worker, IdleWorker)]_vars

\* Connect found a dead socket in the slot (its transport closed, its
\* onDisconnect has not run, nobody called Disconnect), emptied the slot and
\* is attempting the connection.
C14_Witness ==
    /\ socketLock # "none"
    /\ socket = 0
    /\ \E s \in DOMAIN sockets : sockets[s].cb = "pending"
    /\ hist.disconnects = 0
    /\ hist.handled515 = {}

\* C15: on every path where the library itself stops the socket and the
\* Disconnected event is to be suppressed, the expected-disconnect flag is
\* set before the socket is stopped: when the 515 reconnect goroutine stops
\* the connected socket, the flag is already set.
C15_FlagSetBeforeLibraryStop ==
    [][(R515Disconnect /\ socket # 0 /\ IsConnected(socket)) =>
          isExpectedDisconnect]_vars

(***************************************************************************)
(* autoReconnect: a session whose application connects, whose transport    *)
(* closes, whose handshakes fail and whose server sends success nodes.     *)
(***************************************************************************)
SuccessFrames == {Node("success", NoID, "", "")}

InitAuto ==
    /\ NewClient(OneSession, AnyStore, BOOLEAN, MaxAutoInputs)
    /\ callers = <<>>

NextAuto ==
    \/ AppConnectBegin
    \/ AppConnectEnd
    \/ Transport
    \/ AutoReconnect
    \/ Worker
    \/ \E f \in SuccessFrames : Frame(f)

SpecAuto == InitAuto /\ [][NextAuto]_vars

\* autoReconnect goroutines inside the loop
InAutoLoop == tasks["a.loop"] + tasks["a.inc"] + tasks["a.sleep"]

\* C16: autoReconnect is a no-op when EnableAutoReconnect is false or the
\* store has no device identity: the call returns at once, it does not call
\* Connect and leaves the counter (and everything else) unchanged; a client
\* with EnableAutoReconnect false never has a goroutine in the loop and its
\* counter stays zero.
C16_AutoReconnectNoOpWhenDisabled ==
    [][/\ (AutoStart /\ (~EnableAutoReconnect \/ StoreID = "nil")) =>
             /\ tasks' = Ended(tasks, "a.start")
             /\ AutoReconnectErrors' = AutoReconnectErrors
             /\ UNCHANGED <<sockVars, autoLocal, events>>
       /\ ~EnableAutoReconnect =>
             /\ InAutoLoop = 0
             /\ socketLock # "auto"
             /\ AutoReconnectErrors = 0]_vars

\* With EnableAutoReconnect false and a paired store, a remote close was
\* announced, the autoReconnect it scheduled has run and returned, and
\* nobody is reconnecting.
C16_Witness ==
    /\ ~EnableAutoReconnect
    /\ StoreID = "jid"
    /\ \E s \in DOMAIN sockets : DisconnectedFor(s) \in events
    /\ tasks["a.start"] = 0
    /\ socket = 0
    /\ socketLock = "none"

\* C17: each attempt of autoReconnect increments the counter by one (and
\* waits counter x 2 s before it calls Connect): the store that completes
\* cli.AutoReconnectErrors++ leaves the counter one above what it was.
C17_EachAttemptIncrementsByOne ==
    [][(\E v \in DOMAIN autoLocal : AutoStore(v)) =>
          AutoReconnectErrors' = AutoReconnectErrors + 1]_vars

(***************************************************************************)
(* Authentication: success and failure nodes and the post-connect task.    *)
(***************************************************************************)
AuthFrames == SuccessFrames \cup {FailureNode("401"), FailureNode("403")}

PostConnect ==
    \/ \E dbErr, serverErr \in BOOLEAN : \E dbCount, serverCount \in PreKeyCounts :
          PostPreKeys(dbErr, dbCount, serverErr, serverCount)
    \/ \E ok \in BOOLEAN : PostSetPassive(ok)
    \/ PostEmit

InitAuth ==
    /\ NewClient(OneSession, PairedStore, {TRUE}, MaxAuthInputs)
    /\ callers = <<>>

NextAuth ==
    \/ AppConnectBegin
    \/ AppConnectEnd
    \/ Transport
    \/ AutoReconnect
    \/ Worker
    \/ PostConnect
    \/ \E f \in AuthFrames : Frame(f)

SpecAuth == InitAuth /\ [][NextAuth]_vars

\* goroutines of handleConnectSuccess that have not emitted Connected yet
InPostConnect == tasks["p.keys"] + tasks["p.passive"] + tasks["p.emit"]

\* the handler of worker s, which runs a node of this tag, returns in this step
HandlerReturned(s, tag) ==
    /\ worker[s].st \in {"run", "flagged"}
    /\ worker[s].node.tag = tag
    /\ worker'[s].st = "idle"

\* C27: whenever the session has no active socket it is not marked
\* authenticated: IsLoggedIn holds only while a socket is in the slot.
C27_LoggedInOnlyWithSocket == socket = 0 => ~IsLoggedIn

\* C19: when the handler of a success node returns, the session is marked
\* authenticated, the auto-reconnect counter is zero and the post-connect
\* goroutine is spawned; that goroutine emits Connected exactly once, and only
\* after the prekey check and SetPassive(false) have completed, with or
\* without an error; prekeys are uploaded only when the local or the server
\* count is below MinPreKeyCount.
C19_ConnectedOnceAfterPostConnect ==
    [][/\ \A s \in DOMAIN worker :
             HandlerReturned(s, "success") =>
                /\ IsLoggedIn'
                /\ AutoReconnectErrors' = 0
                /\ tasks' = Spawned(tasks, "p.keys")
                /\ events' = events
       /\ hist.connected + InPostConnect = hist.successes
       /\ Cardinality({e \in events : e.type = "Connected"}) = hist.connected
       /\ (\E e \in events' \ events : e.type = "Connected") =>
             /\ tasks' = Ended(tasks, "p.emit")
             /\ hist'.connected = hist.connected + 1
       /\ tasks'["p.emit"] > tasks["p.emit"] => tasks' = Moved(tasks, "p.passive", "p.emit")
       /\ tasks'["p.passive"] > tasks["p.passive"] => tasks' = Moved(tasks, "p.keys", "p.passive")
       /\ hist'.uploads # hist.uploads => tasks' = Moved(tasks, "p.keys", "p.passive")
       /\ \A u \in hist'.uploads : u[1] < MinPreKeyCount \/ u[2] < MinPreKeyCount]_vars

\* After an autoReconnect that had raised the counter, a success node was
\* handled: the counter is zero again, the session is authenticated, prekeys
\* were uploaded and Connected was emitted.
C19_Witness ==
    /\ DisconnectedFor(1) \in events
    /\ tasks["a.start"] = 0 /\ InAutoLoop = 0
    /\ Len(sockets) = 2
    /\ hist.successes = 1
    /\ AutoReconnectErrors = 0
    /\ IsLoggedIn
    /\ hist.uploads # {}
    /\ hist.connected = 1

\* C20: the handler of a failure node with reason 401 sets the
\* expected-disconnect flag first, and only then emits LoggedOut{onConnect:
\* true} and deletes the store; with any other reason it emits ConnectFailure
\* only and leaves the flag and the store unchanged.
C20_FailureHandling ==
    [][/\ \A s \in DOMAIN worker :
             (/\ worker[s].st \in {"run", "flagged"}
              /\ worker[s].node.tag = "failure"
              /\ worker'[s] # worker[s]) =>
                IF worker[s].node.reason # "401"
                THEN /\ events' = events \cup {Evt("ConnectFailure", FALSE, worker[s].node.sock,
                                                    worker[s].node.seq)}
                     /\ expectedDisconnectVal' = expectedDisconnectVal
                     /\ StoreID' = StoreID
                     /\ worker'[s].st = "idle"
                ELSE IF worker[s].st = "run"
                THEN /\ expectedDisconnectVal' = 1
                     /\ events' = events
                     /\ StoreID' = StoreID
                     /\ worker'[s].st = "flagged"
                ELSE /\ events' = events \cup {Evt("LoggedOut", TRUE, worker[s].node.sock,
                                                    worker[s].node.seq)}
                     /\ StoreID' = "nil"
                     /\ worker'[s].st = "idle"
       /\ \A e \in events' \ events :
             e.type \in {"LoggedOut", "ConnectFailure"} =>
                \E s \in DOMAIN worker :
                   /\ worker[s].node.seq = e.seq
                   /\ worker[s].st = IF e.type = "LoggedOut" THEN "flagged" ELSE "run"
       /\ StoreID' # StoreID => \E s \in DOMAIN worker : worker[s].st = "flagged"]_vars

\* Both kinds of failure were handled: a ConnectFailure was emitted with the
\* store kept, and later a 401 set the flag, emitted LoggedOut{onConnect:
\* true} and deleted the store.
C20_Witness ==
    /\ \E e \in events : e.type = "ConnectFailure"
    /\ \E e \in events : e.type = "LoggedOut" /\ e.onConnect
    /\ isExpectedDisconnect
    /\ StoreID = "nil"

(***************************************************************************)
(* Requests: generateRequestID, sendIQ and usync.  A caller is an          *)
(* application goroutine inside sendIQ, possibly called by usync.          *)
(***************************************************************************)
NoResult == [st |-> "none", node |-> NoNode]

Result(st, node) == [st |-> st, node |-> node]

NewCaller(kind) ==
    [kind |-> kind,
     pc |-> IF kind = "usync" THEN "sid" ELSE IF kind = "logout" THEN "start" ELSE "gen",
     sid |-> NoID, id |-> NoID, chan |-> EmptyChan, res |-> NoResult]

\* generateRequestID: the unique prefix followed by the counter's next value in
\* decimal; the caller increments idCounter in the same step (atomic add)
generateRequestID == uniqueID \o FormatUint(idCounter + 1)

\* usync that builds its sid from the counter's current value
usync_PeeksCounter(c) ==
    /\ callers[c].pc = "sid"
    /\ callers' = [callers EXCEPT ![c].sid = uniqueID \o FormatUint(idCounter),
                                  ![c].pc = "gen"]
    /\ UNCHANGED idCounter
    /\ hist' = [hist EXCEPT !.issued = Append(@, uniqueID \o FormatUint(idCounter))]
    /\ UNCHANGED <<sockVars, cliVars, responseWaiters, uniqueID>>
    /\ UNCHANGED <<queueVars, busVars, taskVars, arrived, budget>>

\* usync: the argument of sendIQ is built first, its "sid" attribute from
\* cli.generateRequestID(); sendIQ is then called with no id of its own
usync(c) ==
    /\ callers[c].pc = "sid"
    /\ callers' = [callers EXCEPT ![c].sid = generateRequestID, ![c].pc = "gen"]
    /\ idCounter' = idCounter + 1
    /\ hist' = [hist EXCEPT !.issued = Append(@, generateRequestID)]
    /\ UNCHANGED <<sockVars, cliVars, responseWaiters, uniqueID>>
    /\ UNCHANGED <<queueVars, busVars, taskVars, arrived, budget>>

\* sendIQ: allocates the request id and registers the waiter under it
sendIQBegin(c) ==
    /\ callers[c].pc = "gen"
    /\ callers' = [callers EXCEPT ![c].id = generateRequestID, ![c].pc = "send"]
    /\ idCounter' = idCounter + 1
    /\ responseWaiters' = MapPut(responseWaiters, generateRequestID, c)
    /\ hist' = [hist EXCEPT !.issued = Append(@, generateRequestID)]
    /\ UNCHANGED <<sockVars, cliVars, uniqueID>>
    /\ UNCHANGED <<queueVars, busVars, taskVars, arrived, budget>>

\* sendNode: the socket is read under the read lock; nil is ErrNotConnected,
\* and SendFrame fails on a socket whose transport is closed.  A Disconnect
\* between the read and SendFrame changes only which error is returned.
sendNode ==
    IF socket = 0 THEN "ErrNotConnected"
    ELSE IF ~IsConnected(socket) THEN "ErrSend"
    ELSE "sent"

\* sendIQ: sendNode; when it fails the waiter is cancelled and the error returned
sendIQSend(c) ==
    /\ callers[c].pc = "send"
    /\ socketLock = "none"
    /\ IF sendNode # "sent"
       THEN /\ callers' = [callers EXCEPT ![c].pc = "done",
                                          ![c].res = Result(sendNode, NoNode)]
            /\ responseWaiters' = MapDel(responseWaiters, callers[c].id)
       ELSE /\ callers' = [callers EXCEPT ![c].pc = "wait"]
            /\ UNCHANGED responseWaiters
    /\ UNCHANGED <<sockVars, cliVars, uniqueID, idCounter>>
    /\ UNCHANGED <<queueVars, busVars, taskVars, arrived, hist, budget>>

\* An <iq type="error"/> reply to request id
ErrorReply(id) == [tag |-> "iq", id |-> id, code |-> "", conflict |-> "",
                   seq |-> 0, sock |-> 0, type |-> "error"]

IsErrorReply(node) == "type" \in DOMAIN node /\ node.type = "error"

\* sendIQ: the waiter is signalled, with the reply or by the disconnect
sendIQWait(c) ==
    /\ callers[c].pc = "wait"
    /\ callers[c].chan.st # "empty"
    /\ callers' = [callers EXCEPT
                      ![c].pc = "done",
                      ![c].chan = IF @.st = "full" THEN EmptyChan ELSE @,
                      ![c].res = IF callers[c].chan.st = "full"
                                 THEN IF IsErrorReply(callers[c].chan.node)
                                      THEN Result("IQError", callers[c].chan.node)
                                      ELSE Result("node", callers[c].chan.node)
                                 ELSE Result("ErrIQDisconnected", NoNode)]
    /\ UNCHANGED <<sockVars, cliVars, responseWaiters, uniqueID, idCounter>>
    /\ UNCHANGED <<queueVars, busVars, taskVars, arrived, hist, budget>>

\* sendIQ: the timeout fires first; the waiter is cancelled
sendIQTimeout(c) ==
    /\ callers[c].pc = "wait"
    /\ Input
    /\ callers' = [callers EXCEPT ![c].pc = "done",
                                  ![c].res = Result("ErrIQTimedOut", NoNode)]
    /\ responseWaiters' = MapDel(responseWaiters, callers[c].id)
    /\ UNCHANGED <<sockVars, cliVars, uniqueID, idCounter>>
    /\ UNCHANGED <<queueVars, busVars, taskVars, arrived, hist>>

Requests ==
    \/ \E c \in DOMAIN callers : sendIQBegin(c)
    \/ \E c \in DOMAIN callers : sendIQSend(c)
    \/ \E c \in DOMAIN callers : sendIQWait(c)
    \/ \E c \in DOMAIN callers : sendIQTimeout(c)

\* What the server may send on a session with requests: a reply to a request
\* it has received, a late or a second reply included
IQFrames ==
    {Node("iq", callers[c].id, "", "") :
        c \in {d \in DOMAIN callers : callers[d].pc \in {"wait", "done"}
                                      /\ callers[d].res.st \notin {"ErrNotConnected", "ErrSend"}}}

\* The application has cleared EnableAutoReconnect: autoReconnect returns at once
InitIQ ==
    /\ NewClient(OneSession, PairedStore, {FALSE}, MaxIQInputs)
    /\ callers = [c \in 1..MaxCallers |-> NewCaller("iq")]

NextIQ ==
    \/ Application
    \/ Transport
    \/ AutoStart
    \/ Worker
    \/ Requests
    \/ \E f \in IQFrames : Frame(f)

SpecIQ == InitIQ /\ [][NextIQ]_vars

(***************************************************************************)
(* Claims about requests, checked under SpecIQ.                            *)
(***************************************************************************)
\* the counter value a request id was built from
CounterOf(id) == CHOOSE n \in 0..idCounter : id = uniqueID \o FormatUint(n)

\* the request ids of the callers that have registered a waiter
RequestIds == {callers[c].id : c \in {d \in DOMAIN callers : callers[d].id # NoID}}

\* C1: with requests in flight at the same time, each caller receives the
\* reply whose id equals its own request id and never another caller's: a
\* reply that arrives while its id is awaited is removed from the waiter map
\* and handed to the caller registered under that id, and once every request
\* is answered the waiter map is empty.
C1_RepliesReachTheirCaller ==
    /\ \A c \in DOMAIN callers :
          /\ callers[c].chan.st = "full" => callers[c].chan.node.id = callers[c].id
          /\ callers[c].res.st = "node" => callers[c].res.node.id = callers[c].id
    /\ \A id \in hist.answered :
          /\ id \notin DOMAIN responseWaiters
          /\ \E c \in DOMAIN callers :
                /\ callers[c].id = id
                /\ callers[c].chan.st = "full" \/ callers[c].pc = "done"
    /\ RequestIds \subseteq hist.answered => responseWaiters = EmptyMap

\* Two callers have their replies, which arrived in the reverse order of the
\* requests, and the waiter map is empty.
C1_Witness ==
    \E c1, c2 \in DOMAIN callers :
       /\ callers[c1].res.st = "node" /\ callers[c2].res.st = "node"
       /\ CounterOf(callers[c1].id) > CounterOf(callers[c2].id)
       /\ callers[c1].res.node.seq < callers[c2].res.node.seq
       /\ responseWaiters = EmptyMap

\* C2: a call of Disconnect on a connected session with waiters outstanding
\* releases every one of them with the disconnect error (its channel is
\* closed) and leaves the waiter map empty.
C2_DisconnectReleasesWaiters ==
    [][(hist'.disconnects # hist.disconnects /\ socket # 0) =>
          /\ responseWaiters' = EmptyMap
          /\ \A c \in Range(responseWaiters) : callers'[c].chan = ClosedChan]_vars

\* the nodes waiting for a handler: in the queue or held by a pusher
Pending == Range(handlerQueue) \cup pushers

\* C11: there is at most one waiter per request id, and a reply is delivered
\* to a waiter at most once: a delivery removes the waiter; once a waiter is
\* removed (by delivery, timeout or teardown) its id is never registered
\* again and no node is delivered to its caller; a node whose id is not
\* awaited goes to the tag handlers and changes no caller; and a caller's
\* outcome, once it has one, never changes.
C11_DeliveredAtMostOnce ==
    [][/\ \A id \in DOMAIN responseWaiters :
             callers[responseWaiters[id]].id = id
       /\ \A c \in DOMAIN callers :
             /\ callers[c].res.st # "none" => callers'[c].res = callers[c].res
             /\ (callers'[c].chan.st = "full" /\ callers'[c].chan # callers[c].chan) =>
                   /\ callers[c].id \in DOMAIN responseWaiters
                   /\ callers[c].id \notin DOMAIN responseWaiters'
                   /\ callers'[c].chan.node.id = callers[c].id
             /\ (callers[c].id # NoID /\ callers[c].id \notin DOMAIN responseWaiters) =>
                   callers[c].id \notin DOMAIN responseWaiters'
       /\ (arrived' # arrived /\ responseWaiters' = responseWaiters) =>
             /\ callers' = callers
             /\ \E node \in Range(handlerQueue') \cup pushers' : node.seq = arrived']_vars

\* A caller has its reply, its waiter is gone, and a later node with the
\* same id waits for the tag handlers.
C11_Witness ==
    \E c \in DOMAIN callers :
       /\ callers[c].res.st = "node"
       /\ callers[c].id \notin DOMAIN responseWaiters
       /\ \E node \in Pending :
             node.id = callers[c].id /\ node.seq > callers[c].res.node.seq

\* C23: onDisconnect for a socket that is not the active one leaves the
\* session unchanged: the slot keeps its value, no waiter is released, no
\* Disconnected event is emitted and no autoReconnect is scheduled; for the
\* active socket the slot is cleared and every waiter is released in the
\* step that takes the event/reconnect decision.
C23_StaleOnDisconnectIgnored ==
    [][\A s \in DOMAIN sockets :
          OnDisconnectRan(s) =>
             IF socket # s
             THEN /\ UNCHANGED <<socket, socketLock, expectedDisconnectVal>>
                  /\ UNCHANGED <<cliVars, iqVars, queueVars, taskVars>>
                  /\ \A t \in DOMAIN sockets : sockets'[t].st = sockets[t].st
             ELSE /\ socket' = 0
                  /\ responseWaiters' = EmptyMap
                  /\ \A c \in Range(responseWaiters) : callers'[c].chan = ClosedChan
                  /\ \A c \in DOMAIN callers \ Range(responseWaiters) : callers'[c] = callers[c]
                  /\ events' \in {events, events \cup {DisconnectedFor(s)}}
                  /\ tasks' \in {tasks, Spawned(tasks, "a.start")}]_vars

\* The callback of a first connection, closed by the server, ran after a
\* second connection was installed: the second socket is still the active
\* one, a request is still awaited on it, and nothing was announced.
C23_Witness ==
    /\ Len(sockets) = 2
    /\ sockets[1].cb = "done" /\ sockets[1].remote
    /\ socket = 2 /\ IsConnected(2)
    /\ DisconnectedFor(1) \notin events
    /\ tasks["a.start"] = 0
    /\ \E c \in DOMAIN callers :
          /\ callers[c].pc = "wait" /\ callers[c].chan.st = "empty"
          /\ callers[c].id \in DOMAIN responseWaiters

(***************************************************************************)
(* The inbound router: every kind of node, with a request in flight.       *)
(***************************************************************************)
\* the ids the server may put on a node: those of the requests in flight
AwaitedIds == {callers[c].id : c \in {d \in DOMAIN callers : callers[d].pc = "wait"}}

RouterFrames ==
    {Node("xmlstreamend", NoID, "", ""), Node("message", NoID, "", ""),
     Node("presence", NoID, "", "")}
    \cup UNION {{Node("xmlstreamend", id, "", ""), Node("iq", id, "", ""),
                 Node("presence", id, "", "")} : id \in AwaitedIds}

InitRouter ==
    /\ NewClient(OneSession, PairedStore, {FALSE}, MaxRouterInputs)
    /\ callers = <<NewCaller("iq")>>

NextRouter ==
    \/ AppConnectBegin
    \/ AppConnectEnd
    \/ Requests
    \/ \E s \in DOMAIN worker : WorkerTake(s)
    \/ \E s \in DOMAIN worker : WorkerFinish(s)
    \/ Pushers
    \/ \E f \in RouterFrames : Frame(f)

SpecRouter == InitRouter /\ [][NextRouter]_vars

\* C22: the inbound router applies its rules in a fixed order, exactly one
\* per decoded node: an xmlstreamend node changes neither the waiters nor the
\* queue, even with a matching id; otherwise a node whose id is awaited is
\* delivered to that waiter, which is removed, and is not enqueued; otherwise
\* a node with a registered tag is enqueued (handed to a pusher when the
\* queue is full) and no waiter changes; otherwise the node is dropped with
\* waiters and queue unchanged.
C22_RouterRulesInOrder ==
    [][\A f \in RouterFrames :
          Frame(f) =>
             IF f.tag = "xmlstreamend"
             THEN UNCHANGED <<responseWaiters, callers, handlerQueue, pushers>>
             ELSE IF f.id # NoID /\ f.id \in DOMAIN responseWaiters
             THEN /\ callers'[responseWaiters[f.id]].chan.st = "full"
                  /\ callers'[responseWaiters[f.id]].chan.node.tag = f.tag
                  /\ callers'[responseWaiters[f.id]].chan.node.seq = arrived'
                  /\ responseWaiters' = MapDel(responseWaiters, f.id)
                  /\ UNCHANGED <<handlerQueue, pushers>>
             ELSE IF f.tag \in nodeHandlers
             THEN /\ UNCHANGED <<responseWaiters, callers>>
                  /\ IF Len(handlerQueue) < QueueDepth
                     THEN /\ handlerQueue' = Append(handlerQueue, Stamp(f, arrived', socket))
                          /\ pushers' = pushers
                     ELSE /\ pushers' = pushers \cup {Stamp(f, arrived', socket)}
                          /\ handlerQueue' = handlerQueue
             ELSE UNCHANGED <<responseWaiters, callers, handlerQueue, pushers>>]_vars

\* An xmlstreamend node carrying the id of an outstanding request arrived: the
\* request is still awaited and nothing was enqueued.
C22_Witness ==
    \E c \in DOMAIN callers :
       /\ callers[c].pc = "wait"
       /\ callers[c].chan.st = "empty"
       /\ callers[c].id \in hist.streamEnds
       /\ callers[c].id \in DOMAIN responseWaiters
       /\ invoked = <<>>
       /\ Pending = {}

(***************************************************************************)
(* Logout, called by an application goroutine.                             *)
(***************************************************************************)
\* if cli.Store.ID == nil { return ErrNotLoggedIn }, else sendIQ is called
LogoutBegin(c) ==
    /\ callers[c].kind = "logout"
    /\ callers[c].pc = "start"
    /\ callers' = IF StoreID = "nil"
                  THEN [callers EXCEPT ![c].pc = "ret",
                                       ![c].res = Result("ErrNotLoggedIn", NoNode)]
                  ELSE [callers EXCEPT ![c].pc = "gen"]
    /\ UNCHANGED <<sockVars, cliVars, responseWaiters, uniqueID, idCounter>>
    /\ UNCHANGED <<queueVars, busVars, taskVars, arrived, hist, budget>>

\* Logout that disconnects whatever sendIQ returned
LogoutDisconnect_IgnoresError(c) ==
    /\ callers[c].kind = "logout"
    /\ callers[c].pc = "done"
    /\ Disconnect
    /\ callers' = [callers EXCEPT ![c].pc = "del"]
    /\ UNCHANGED <<cliVars, responseWaiters, uniqueID, idCounter>>
    /\ UNCHANGED <<queueVars, busVars, taskVars, arrived, hist, budget>>

\* sendIQ has returned: an error is returned wrapped; else cli.Disconnect()
LogoutDisconnect(c) ==
    /\ callers[c].kind = "logout"
    /\ callers[c].pc = "done"
    /\ IF callers[c].res.st # "node"
       THEN /\ callers' = [callers EXCEPT ![c].pc = "ret"]
            /\ UNCHANGED sockVars
       ELSE /\ Disconnect
            /\ callers' = [callers EXCEPT ![c].pc = "del"]
    /\ UNCHANGED <<cliVars, responseWaiters, uniqueID, idCounter>>
    /\ UNCHANGED <<queueVars, busVars, taskVars, arrived, hist, budget>>

\* cli.Store.Delete() and the return
LogoutDelete(c) ==
    /\ callers[c].kind = "logout"
    /\ callers[c].pc = "del"
    /\ StoreDelete
    /\ callers' = [callers EXCEPT ![c].pc = "ret", ![c].res = Result("nil", NoNode)]
    /\ UNCHANGED <<sockVars, EnableAutoReconnect, AutoReconnectErrors, IsLoggedIn>>
    /\ UNCHANGED <<responseWaiters, uniqueID, idCounter>>
    /\ UNCHANGED <<queueVars, busVars, taskVars, arrived, hist, budget>>

Logout ==
    \/ \E c \in DOMAIN callers : LogoutBegin(c)
    \/ \E c \in DOMAIN callers : LogoutDisconnect(c)
    \/ \E c \in DOMAIN callers : LogoutDelete(c)

\* the server's replies to the unlink request: a result or an error
LogoutFrames ==
    UNION {{Node("iq", callers[c].id, "", ""), ErrorReply(callers[c].id)} :
              c \in {d \in DOMAIN callers : callers[d].pc = "wait"}}

InitLogout ==
    /\ NewClient(OneSession, AnyStore, {FALSE}, MaxLogoutInputs)
    /\ callers = <<NewCaller("logout")>>

NextLogout ==
    \/ AppConnectBegin
    \/ AppConnectEnd
    \/ Transport
    \/ AutoStart
    \/ Worker
    \/ Requests
    \/ Logout
    \/ \E f \in LogoutFrames : Frame(f)

SpecLogout == InitLogout /\ [][NextLogout]_vars

\* C13: Logout returns ErrNotLoggedIn without sending anything when the
\* store has no identity; when the unlink request fails (not connected, send
\* error, timeout, disconnect, error reply) it returns the error and neither
\* disconnects nor deletes the store; only when the request succeeds does it
\* disconnect and then delete the store.
C13_LogoutOnlyOnIQSuccess ==
    [][\A c \in DOMAIN callers :
          /\ (LogoutBegin(c) /\ StoreID = "nil") =>
                /\ callers'[c].pc = "ret"
                /\ callers'[c].res.st = "ErrNotLoggedIn"
                /\ callers'[c].id = NoID
                /\ UNCHANGED <<sockVars, StoreID, responseWaiters, idCounter>>
          /\ (LogoutDisconnect(c) /\ callers[c].res.st # "node") =>
                /\ callers'[c].pc = "ret"
                /\ callers'[c].res = callers[c].res
                /\ UNCHANGED <<sockVars, StoreID>>
          /\ (LogoutDisconnect(c) /\ callers[c].res.st = "node") =>
                /\ socket' = 0
                /\ Live' = {}
                /\ StoreID' = StoreID
                /\ callers'[c].pc = "del"
          /\ (callers[c].kind = "logout" /\ callers[c].pc = "ret") =>
                /\ callers'[c] = callers[c]
                /\ callers[c].res.st = "nil" <=> (StoreID = "nil" /\ callers[c].id # NoID)
          /\ StoreID' # StoreID =>
                /\ StoreID' = "nil"
                /\ \E d \in DOMAIN callers :
                      /\ callers[d].pc = "del" /\ callers[d].res.st = "node"
                      /\ callers'[d].pc = "ret" /\ callers'[d].res.st = "nil"]_vars

\* Logout succeeded on a connected, paired session: the request was answered,
\* the socket was stopped and the slot emptied, the store was deleted.
C13_Witness ==
    \E c \in DOMAIN callers :
       /\ callers[c].kind = "logout"
       /\ callers[c].pc = "ret"
       /\ callers[c].res.st = "nil"
       /\ hist.answered = {callers[c].id}
       /\ Len(sockets) = 1 /\ socket = 0 /\ ~IsConnected(1)
       /\ StoreID = "nil"

(***************************************************************************)
(* Request ids alone: goroutines of a session that is not connected call   *)
(* sendIQ and usync; every id is generated, and every send fails.          *)
(***************************************************************************)
\* the two random bytes of NewClient: the extremes and one in between
Sessions == {<<0, 0>>, <<7, 12>>, <<255, 255>>}

InitIds ==
    /\ NewClient(Sessions, PairedStore, {TRUE}, 0)
    /\ callers \in [1..MaxCallers -> {NewCaller("iq"), NewCaller("usync")}]

NextIds ==
    \/ \E c \in DOMAIN callers : usync(c)
    \/ \E c \in DOMAIN callers : sendIQBegin(c)
    \/ \E c \in DOMAIN callers : sendIQSend(c)

SpecIds == InitIds /\ [][NextIds]_vars

\* C10: the request ids generated within one session are pairwise distinct,
\* the sid of a usync query and the id of the IQ stanza that carries it
\* included; each is the session's prefix followed by the value of a counter
\* that strictly increases from one generated id to the next.
C10_RequestIdsDistinct ==
    /\ \A i \in DOMAIN hist.issued :
          \E n \in 1..idCounter : hist.issued[i] = uniqueID \o FormatUint(n)
    /\ \A i, j \in DOMAIN hist.issued :
          i < j => /\ hist.issued[i] # hist.issued[j]
                   /\ CounterOf(hist.issued[i]) < CounterOf(hist.issued[j])
    /\ \A c \in DOMAIN callers :
          /\ callers[c].sid # NoID => callers[c].sid \in Range(hist.issued)
          /\ callers[c].id # NoID =>
                /\ callers[c].id \in Range(hist.issued)
                /\ callers[c].id # callers[c].sid
                /\ \A d \in DOMAIN callers :
                      d # c => callers[c].id \notin {callers[d].id, callers[d].sid}

\* A usync query holds its sid and its IQ id while another request holds an id.
C10_Witness ==
    \E c, d \in DOMAIN callers :
       /\ c # d
       /\ callers[c].kind = "usync" /\ callers[c].sid # NoID /\ callers[c].id # NoID
       /\ callers[d].id # NoID
       /\ Len(hist.issued) >= 3

(***************************************************************************)
(* The handler queue across connections: message nodes, connects,          *)
(* disconnects, closes of the transport and automatic reconnects.          *)
(***************************************************************************)
QueueFrames == {Node("message", NoID, "", "")}

InitQueue ==
    /\ NewClient(OneSession, PairedStore, {TRUE}, MaxQueueInputs)
    /\ callers = <<>>

NextQueue ==
    \/ Application
    \/ Transport
    \/ AutoReconnect
    \/ Worker
    \/ Pushers
    \/ \E f \in QueueFrames : Frame(f)

SpecQueue == InitQueue /\ [][NextQueue]_vars

\* the workers that are inside a handler
Running == {s \in DOMAIN worker : worker[s].st \in {"run", "flagged"}}

\* C6: for the nodes accepted into the handler queue while it has not
\* overflowed, the handlers are invoked in the order the nodes arrived in
\* handleFrame, and each invocation finishes before the next one starts.
C6_InOrderOneAtATime ==
    /\ hist.spilled = {} =>
          \A i, j \in DOMAIN invoked : i < j => invoked[i] < invoked[j]
    /\ Cardinality(Running) <= 1

\* C25: at most one handlerQueueLoop invokes a handler at any moment: while
\* the worker started by a later Connect is inside a handler, no worker
\* started by an earlier Connect is inside one.
C25_EarlierWorkerNeverOverlaps ==
    \A s, t \in DOMAIN worker :
       (s < t /\ worker[t].st \in {"run", "flagged"}) =>
          worker[s].st \notin {"run", "flagged"}

(***************************************************************************)
(* The handler queue when a handler panics: nothing runs in a program      *)
(* that an unrecovered panic has ended.                                    *)
(***************************************************************************)
InitPanic ==
    /\ NewClient(OneSession, PairedStore, {TRUE}, MaxPanicInputs)
    /\ callers = <<>>

NextPanic ==
    \/ ~Crashed /\ AppConnectBegin
    \/ ~Crashed /\ AppConnectEnd
    \/ ~Crashed /\ AppDisconnect
    \/ ~Crashed /\ \E s \in DOMAIN worker : WorkerTake(s)
    \/ ~Crashed /\ \E s \in DOMAIN worker : WorkerFinish(s)
    \/ ~Crashed /\ \E s \in DOMAIN worker : WorkerPanic(s)
    \/ ~Crashed /\ \E s \in DOMAIN worker : WorkerExit(s)
    \/ ~Crashed /\ Pushers
    \/ ~Crashed /\ \E f \in QueueFrames : Frame(f)

SpecPanic == InitPanic /\ [][NextPanic]_vars

\* C24: a panic inside a node handler is caught and swallowed: the worker
\* that ran the handler is back in its loop, ready for the nodes that follow.
C24_HandlerPanicSwallowed ==
    [][\A s \in DOMAIN worker :
          WorkerPanic(s) => worker'[s] = IdleWorker]_vars

(***************************************************************************)
(* The handler queue of one connection under load: the worker keeps        *)
(* running, and the scheduler is fair to it and to the pushers.            *)
(***************************************************************************)
InitOverflow ==
    /\ NewClient(OneSession, PairedStore, {TRUE}, MaxOverflowInputs)
    /\ callers = <<>>

NextOverflow ==
    \/ AppConnectBegin
    \/ AppConnectEnd
    \/ \E s \in DOMAIN worker : WorkerTake(s)
    \/ \E s \in DOMAIN worker : WorkerFinish(s)
    \/ Pushers
    \/ \E f \in QueueFrames : Frame(f)

\* A runnable goroutine is scheduled eventually; a sender blocked on the
\* channel is served each time the worker takes a node from it.
FairOverflow ==
    /\ WF_vars(\E s \in DOMAIN worker : WorkerTake(s))
    /\ WF_vars(\E s \in DOMAIN worker : WorkerFinish(s))
    /\ SF_vars(Pushers)

SpecOverflow == InitOverflow /\ [][NextOverflow]_vars /\ FairOverflow

\* C7: a node with a registered tag that arrives while the handler queue is
\* full is not dropped: with a running worker and fair scheduling it is
\* eventually handled, no node is handled twice, and the nodes handleFrame
\* queued itself are handled in the order they arrived.
C7_OverflowedNodesHandled ==
    /\ [](\A i, j \in DOMAIN invoked : i # j => invoked[i] # invoked[j])
    /\ [](\A i, j \in DOMAIN invoked :
             (i < j /\ invoked[i] \in hist.direct /\ invoked[j] \in hist.direct)
             => invoked[i] < invoked[j])
    /\ \A n \in 1..MaxOverflowInputs :
          (n \in hist.spilled) ~> (n \in Range(invoked))

\* Nodes that arrived on a full queue have been handled, after a node that
\* arrived later than one of them was.
C7_Witness ==
    /\ pushers = {}
    /\ hist.spilled # {}
    /\ hist.spilled \subseteq Range(invoked)
    /\ \E i, j \in DOMAIN invoked :
          i < j /\ invoked[i] > invoked[j] /\ invoked[j] \in hist.spilled

(***************************************************************************)
(* The event bus: AddEventHandler, RemoveEventHandler, RemoveEventHandlers *)
(* and dispatchEvent.  A subscriber function either returns or panics.     *)
(***************************************************************************)
Fns == {"ok", "panic"}

\* the index of the first subscriber with the id, 0 when there is none
RECURSIVE IndexOf(_, _, _)
IndexOf(hs, id, i) ==
    IF i > Len(hs) THEN 0
    ELSE IF hs[i].id = id THEN i
    ELSE IndexOf(hs, id, i + 1)

\* copy(hs[index:], hs[index+1:]): the tail moves one place down, the last
\* element stays where it is
CopyDown(hs, index) ==
    [k \in DOMAIN hs |-> IF k >= index /\ k < Len(hs) THEN hs[k + 1] ELSE hs[k]]

\* the slice left by a removal that does not move the tail down
RemoveAt_NoCopy(hs, index) ==
    IF index = 1 THEN Tail(hs)
    ELSE SubSeq(hs, 1, Len(hs) - 1)

\* the slice left by a removal that moves the last element into the gap
RemoveAt_SwapLast(hs, index) ==
    IF index = Len(hs) THEN SubSeq(hs, 1, Len(hs) - 1)
    ELSE SubSeq([hs EXCEPT ![index] = hs[Len(hs)]], 1, Len(hs) - 1)

\* the slice RemoveEventHandler leaves when it found the id at index (from 1)
RemoveAt(hs, index) ==
    IF index = 1 THEN Tail(hs)
    ELSE IF index < Len(hs) THEN SubSeq(CopyDown(hs, index), 1, Len(hs) - 1)
    ELSE SubSeq(hs, 1, Len(hs) - 1)

\* A uint32 is kept as its 32 bits read as a two's complement number: the
\* values up to 2^31 - 1 are themselves, 2^31 .. 2^32 - 1 are -2^31 .. -1.
MaxInt32 == 2147483647

\* atomic.AddUint32(&x, 1): the new value, modulo 2^32
AddUint32(x) ==
    IF x = -1 THEN 0
    ELSE IF x = MaxInt32 THEN (-MaxInt32) - 1
    ELSE x + 1

\* a < b as uint32
Uint32Less(a, b) == IF (a >= 0) = (b >= 0) THEN a < b ELSE a >= 0

\* AddEventHandler: atomic.AddUint32(&nextHandlerID, 1)
AddEventHandlerBegin(fn) ==
    /\ Input
    /\ nextHandlerID' = AddUint32(nextHandlerID)
    /\ adders' = adders \cup {[fn |-> fn, id |-> AddUint32(nextHandlerID)]}
    /\ UNCHANGED <<eventHandlers, ehReaders, dispatchers>>
    /\ UNCHANGED <<sockVars, cliVars, iqVars, queueVars, taskVars, arrived, hist>>

\* AddEventHandler: the append under the write lock
AddEventHandlerEnd(a) ==
    /\ a \in adders
    /\ ehReaders = 0
    /\ eventHandlers' = Append(eventHandlers, a)
    /\ adders' = adders \ {a}
    /\ UNCHANGED <<nextHandlerID, ehReaders, dispatchers>>
    /\ UNCHANGED <<sockVars, cliVars, iqVars, queueVars, taskVars, arrived, hist, budget>>

\* RemoveEventHandler(id), under the write lock
RemoveEventHandler(id) ==
    /\ Input
    /\ ehReaders = 0
    /\ LET index == IndexOf(eventHandlers, id, 1) IN
          /\ eventHandlers' = IF index = 0 THEN eventHandlers
                              ELSE RemoveAt(eventHandlers, index)
          /\ hist' = [hist EXCEPT !.removes = @ + 1,
                                  !.lastRemove = [id |-> id, ret |-> index # 0, at |-> index,
                                                  len |-> Len(eventHandlers)],
                                  !.removed = IF index # 0 THEN @ \cup {id} ELSE @]
    /\ UNCHANGED <<nextHandlerID, ehReaders, dispatchers, adders>>
    /\ UNCHANGED <<sockVars, cliVars, iqVars, queueVars, taskVars, arrived>>

\* RemoveEventHandlers, under the write lock
RemoveEventHandlers ==
    /\ Input
    /\ ehReaders = 0
    /\ eventHandlers' = <<>>
    /\ UNCHANGED <<nextHandlerID, ehReaders, dispatchers, adders>>
    /\ UNCHANGED <<sockVars, cliVars, iqVars, queueVars, taskVars, arrived, hist>>

\* dispatchEvent: RLock, the deferred function is set up, and the range
\* expression is evaluated
dispatchEventBegin ==
    /\ Input
    /\ ehReaders' = ehReaders + 1
    /\ dispatchers' = dispatchers \cup
          {[n |-> hist.dispatches + 1, subs |-> eventHandlers, idx |-> 1]}
    /\ hist' = [hist EXCEPT !.dispatches = @ + 1]
    /\ UNCHANGED <<eventHandlers, nextHandlerID, adders>>
    /\ UNCHANGED <<sockVars, cliVars, iqVars, queueVars, taskVars, arrived>>

\* what is recorded of a dispatch when it returns
Finished(d) == [n |-> d.n, subs |-> d.subs]

\* dispatchEvent whose read lock is released after the loop instead of in a
\* deferred function: a panic leaves it held
dispatchEventCall_NoDefer(d) ==
    /\ d \in dispatchers
    /\ d.idx <= Len(d.subs)
    /\ IF d.subs[d.idx].fn = "panic"
       THEN /\ dispatchers' = dispatchers \ {d}
            /\ UNCHANGED ehReaders
            /\ hist' = [hist EXCEPT !.calls = @ \cup {<<d.subs[d.idx].id, d.n>>},
                                    !.finished = @ \cup {Finished(d)}]
       ELSE /\ dispatchers' = (dispatchers \ {d}) \cup {[d EXCEPT !.idx = @ + 1]}
            /\ UNCHANGED ehReaders
            /\ hist' = [hist EXCEPT !.calls = @ \cup {<<d.subs[d.idx].id, d.n>>}]
    /\ UNCHANGED <<eventHandlers, nextHandlerID, adders>>
    /\ UNCHANGED <<sockVars, cliVars, iqVars, queueVars, taskVars, arrived, budget>>

\* dispatchEvent: handler.fn(evt) for the next subscriber.  A panic unwinds
\* to the deferred function, which releases the read lock and recovers: the
\* call of dispatchEvent returns.
dispatchEventCall(d) ==
    /\ d \in dispatchers
    /\ d.idx <= Len(d.subs)
    /\ IF d.subs[d.idx].fn = "panic"
       THEN /\ dispatchers' = dispatchers \ {d}
            /\ ehReaders' = ehReaders - 1
            /\ hist' = [hist EXCEPT !.calls = @ \cup {<<d.subs[d.idx].id, d.n>>},
                                    !.finished = @ \cup {Finished(d)}]
       ELSE /\ dispatchers' = (dispatchers \ {d}) \cup {[d EXCEPT !.idx = @ + 1]}
            /\ UNCHANGED ehReaders
            /\ hist' = [hist EXCEPT !.calls = @ \cup {<<d.subs[d.idx].id, d.n>>}]
    /\ UNCHANGED <<eventHandlers, nextHandlerID, adders>>
    /\ UNCHANGED <<sockVars, cliVars, iqVars, queueVars, taskVars, arrived, budget>>

\* dispatchEvent: the loop is over; the deferred function releases the read lock
dispatchEventReturn(d) ==
    /\ d \in dispatchers
    /\ d.idx > Len(d.subs)
    /\ dispatchers' = dispatchers \ {d}
    /\ ehReaders' = ehReaders - 1
    /\ hist' = [hist EXCEPT !.finished = @ \cup {Finished(d)}]
    /\ UNCHANGED <<eventHandlers, nextHandlerID, adders>>
    /\ UNCHANGED <<sockVars, cliVars, iqVars, queueVars, taskVars, arrived, budget>>

InitBus ==
    /\ NewClient(OneSession, PairedStore, {TRUE}, MaxBusInputs)
    /\ callers = <<>>

NextBus ==
    \/ \E fn \in Fns : AddEventHandlerBegin(fn)
    \/ \E a \in adders : AddEventHandlerEnd(a)
    \/ \E id \in 0..nextHandlerID : RemoveEventHandler(id)
    \/ RemoveEventHandlers
    \/ dispatchEventBegin
    \/ \E d \in dispatchers : dispatchEventCall(d)
    \/ \E d \in dispatchers : dispatchEventReturn(d)

SpecBus == InitBus /\ [][NextBus]_vars

(***************************************************************************)
(* Claims about the event bus, checked under SpecBus.                      *)
(***************************************************************************)
\* C8: a subscriber that panics during a dispatch does not stop the fan-out:
\* every subscriber of the list a dispatch ranged over, those after a
\* panicking one included, has been invoked with the event when the dispatch
\* has returned.
C8_PanicDoesNotStopFanOut ==
    \A d \in hist.finished :
       \A i \in DOMAIN d.subs : <<d.subs[i].id, d.n>> \in hist.calls

\* the ids of a subscriber list
IdsOf(hs) == {hs[i].id : i \in DOMAIN hs}

\* C9: RemoveEventHandler(id) returns true if and only if a subscriber with
\* that id is registered when it is called; it leaves every other subscriber
\* registered and the one with the id not registered; and no dispatch invokes
\* a subscriber after RemoveEventHandler has returned true for its id.
C9_RemoveEventHandlerExact ==
    [][/\ hist'.removes # hist.removes =>
             LET id == hist'.lastRemove.id IN
             /\ hist'.lastRemove.ret <=> id \in IdsOf(eventHandlers)
             /\ Range(eventHandlers') = {h \in Range(eventHandlers) : h.id # id}
             /\ Len(eventHandlers') =
                   Len(eventHandlers) - (IF id \in IdsOf(eventHandlers) THEN 1 ELSE 0)
       /\ \A c \in hist'.calls \ hist.calls : c[1] \notin hist.removed]_vars

\* The middle one of three subscribers was removed, and a later dispatch has
\* invoked the two that remain.
C9_Witness ==
    \E d \in hist.finished : \E b \in hist.removed :
       /\ hist.lastRemove = [id |-> b, ret |-> TRUE, at |-> 2, len |-> 3]
       /\ d.subs = eventHandlers
       /\ Len(d.subs) = 2
       /\ <<d.subs[1].id, d.n>> \in hist.calls
       /\ <<d.subs[2].id, d.n>> \in hist.calls
       /\ <<b, d.n>> \notin hist.calls

(***************************************************************************)
(* The event bus of a session in a process whose other sessions register   *)
(* handlers too: nextHandlerID is a package variable, and the session may  *)
(* be created when 2^32 - 2 ids have been handed out already.              *)
(***************************************************************************)
HandlerIdStarts == {0, -2}

\* AddEventHandler of another Client of the process
OtherAddEventHandler ==
    /\ Input
    /\ nextHandlerID' = AddUint32(nextHandlerID)
    /\ UNCHANGED <<eventHandlers, ehReaders, dispatchers, adders>>
    /\ UNCHANGED <<sockVars, cliVars, iqVars, queueVars, taskVars, arrived, hist>>

\* the ids an application may pass to RemoveEventHandler: those it was given,
\* and one it was not
KnownIds == IdsOf(eventHandlers) \cup {a.id : a \in adders} \cup {AddUint32(nextHandlerID)}

InitBusIds ==
    /\ NewClientIn(HandlerIdStarts, OneSession, PairedStore, {TRUE}, MaxBusIdInputs)
    /\ callers = <<>>

NextBusIds ==
    \/ \E fn \in Fns : AddEventHandlerBegin(fn)
    \/ \E a \in adders : AddEventHandlerEnd(a)
    \/ OtherAddEventHandler
    \/ \E id \in KnownIds : RemoveEventHandler(id)
    \/ dispatchEventBegin
    \/ \E d \in dispatchers : dispatchEventCall(d)
    \/ \E d \in dispatchers : dispatchEventReturn(d)

SpecBusIds == InitBusIds /\ [][NextBusIds]_vars

\* the list hs without its element at index
Without(hs, index) ==
    [k \in 1..(Len(hs) - 1) |-> IF k < index THEN hs[k] ELSE hs[k + 1]]

\* Dispatch follows the list, the list keeps the order of registration: a
\* dispatch ranges over the list as it is when the dispatch begins and invokes
\* its elements one by one from the first; the list changes only by an append
\* at its end or by the removal of one element, which leaves the others in
\* their order.
OrderPreserved ==
    /\ \A d \in dispatchers' \ dispatchers :
          \/ d.idx = 1 /\ d.subs = eventHandlers
          \/ \E e \in dispatchers :
                /\ d = [e EXCEPT !.idx = @ + 1]
                /\ hist'.calls = hist.calls \cup {<<e.subs[e.idx].id, e.n>>}
    /\ \A c \in hist'.calls \ hist.calls :
          \E e \in dispatchers \ dispatchers' :
             /\ c = <<e.subs[e.idx].id, e.n>>
             /\ \A i \in 1..(e.idx - 1) : <<e.subs[i].id, e.n>> \in hist.calls
    /\ eventHandlers' # eventHandlers =>
          \/ \E a \in adders : eventHandlers' = Append(eventHandlers, a)
          \/ /\ hist'.lastRemove.ret
             /\ hist'.removes # hist.removes
             /\ eventHandlers[hist'.lastRemove.at].id = hist'.lastRemove.id
             /\ eventHandlers' = Without(eventHandlers, hist'.lastRemove.at)

\* C18 as stated: a dispatch invokes the subscribers in the order of their
\* registration, a removal keeps the order of the others, and every id
\* AddEventHandler hands out is greater than the one handed out before it, in
\* whatever session of the process.
C18_IdsStrictlyIncreasing ==
    [][/\ OrderPreserved
       /\ nextHandlerID' # nextHandlerID => Uint32Less(nextHandlerID, nextHandlerID')]_vars

\* C18, amended: dispatch order and removal as stated; every id is the one
\* handed out before it plus one modulo 2^32, hence greater than it except
\* when the 32-bit counter wraps from 2^32 - 1 to 0.
C18_OrderKeptIdsIncreaseUntilWrap ==
    [][/\ OrderPreserved
       /\ nextHandlerID' # nextHandlerID =>
             /\ nextHandlerID' = AddUint32(nextHandlerID)
             /\ \A a \in adders' \ adders : a.id = nextHandlerID'
             /\ nextHandlerID # -1 => Uint32Less(nextHandlerID, nextHandlerID')]_vars

\* The first of three subscribers was removed, and a later dispatch has
\* invoked the two that remain, in their order.
C18_Witness ==
    \E d \in hist.finished :
       /\ hist.lastRemove.ret /\ hist.lastRemove.at = 1 /\ hist.lastRemove.len = 3
       /\ d.subs = eventHandlers
       /\ Len(d.subs) = 2
       /\ hist.lastRemove.id \notin IdsOf(d.subs)
       /\ \A i \in 1..2 : <<d.subs[i].id, d.n>> \in hist.calls


(***************************************************************************)
(* The session's two read/write locks together: connects, disconnects,     *)
(* closes of the transport, automatic reconnects, a request being sent,    *)
(* and the event bus with subscribers that return or panic.                *)
(***************************************************************************)
InitLocks ==
    /\ NewClient(OneSession, PairedStore, {TRUE}, MaxLockInputs)
    /\ callers = <<NewCaller("iq")>>

NextLocks ==
    \/ Application
    \/ Transport
    \/ AutoReconnect
    \/ \E c \in DOMAIN callers : sendIQBegin(c)
    \/ \E c \in DOMAIN callers : sendIQSend(c)
    \/ \E c \in DOMAIN callers : sendIQWait(c)
    \/ \E fn \in Fns : AddEventHandlerBegin(fn)
    \/ \E a \in adders : AddEventHandlerEnd(a)
    \/ \E id \in 0..nextHandlerID : RemoveEventHandler(id)
    \/ dispatchEventBegin
    \/ \E d \in dispatchers : dispatchEventCall(d)
    \/ \E d \in dispatchers : dispatchEventReturn(d)

\* Every goroutine that can take a step is scheduled eventually: the
\* handshake of a Connect ends (with success or an error), a goroutine
\* waiting for a lock gets it once it stays free, a subscriber returns or
\* panics.
FairLocks ==
    /\ WF_vars(AppConnectEnd)
    /\ WF_vars(\E s \in DOMAIN sockets : onDisconnect(s))
    /\ WF_vars(AutoStart)
    /\ WF_vars(AutoLoad)
    /\ WF_vars(\E v \in DOMAIN autoLocal : AutoStore(v))
    /\ WF_vars(AutoConnectBegin)
    /\ WF_vars(AutoConnectEnd)
    /\ WF_vars(\E c \in DOMAIN callers : sendIQSend(c))
    /\ WF_vars(\E a \in adders : AddEventHandlerEnd(a))
    /\ WF_vars(\E d \in dispatchers : dispatchEventCall(d))
    /\ WF_vars(\E d \in dispatchers : dispatchEventReturn(d))

SpecLocks == InitLocks /\ [][NextLocks]_vars /\ FairLocks

\* C28: the session does not deadlock on its own locks: at every moment a
\* later moment comes at which the socket lock a Connect held is released,
\* the read lock of every dispatch is released (also when a subscriber
\* panicked), and nothing waits for a lock any more: every pending
\* onDisconnect has run, every sendNode has gone through and every
\* AddEventHandler has appended.
C28_LocksAlwaysReleased ==
    []<>(/\ socketLock = "none"
         /\ ehReaders = 0
         /\ adders = {}
         /\ \A s \in DOMAIN sockets : sockets[s].cb # "pending"
         /\ \A c \in DOMAIN callers : callers[c].pc # "send")

\* A subscriber panicked in a dispatch that has returned; a subscriber that
\* was not in that dispatch's snapshot has been appended since, no read lock
\* is held, and a Connect has taken and released the socket lock.
C28_Witness ==
    /\ \E f \in hist.finished :
          /\ \E i \in DOMAIN f.subs :
                f.subs[i].fn = "panic" /\ <<f.subs[i].id, f.n>> \in hist.calls
          /\ \E j \in DOMAIN eventHandlers :
                \A i \in DOMAIN f.subs : f.subs[i].id # eventHandlers[j].id
    /\ ehReaders = 0 /\ adders = {}
    /\ socket # 0 /\ socketLock = "none"


(***************************************************************************)
(* GetUserDevices: a usync query for the devices of some users, and the    *)
(* device list built from the response.                                    *)
(***************************************************************************)
\* types.NewADJID(user, agent, device)
NewADJID(user, agent, device) ==
    [user |-> user, agent |-> agent, device |-> device, ad |-> TRUE]

\* byte(deviceID): the low 8 bits of the int64
Byte(n) == n % 256

\* cli.Store.ID of a paired store: the AD JID of the local device
OwnJID == NewADJID("u1", 0, 1)

\* the ignore argument GetUserDevices passes: cli.Store.ID, nil when unpaired
StoreIDPtr == [nil |-> StoreID = "nil", jid |-> OwnJID]

\* the zero Node GetChildByTag returns when there is no such child
NoChild == [tag |-> "", list |-> [tag |-> "", children |-> <<>>]]

\* the loop of parseDeviceList over the children of the device-list
RECURSIVE appendDevices(_, _, _, _)
appendDevices(user, children, appendTo, ignore) ==
    IF children = <<>> THEN appendTo
    ELSE LET device == Head(children)
             deviceJID == NewADJID(user, 0, Byte(device.id))
             next == IF device.tag # "device" \/ ~device.ok THEN appendTo
                     ELSE IF ignore.nil \/ deviceJID # ignore.jid
                     THEN Append(appendTo, deviceJID)
                     ELSE appendTo
         IN  appendDevices(user, Tail(children), next, ignore)

\* parseDeviceList that appends the local device as well
parseDeviceList_NoIgnore(user, deviceNode, appendTo, ignore) ==
    IF deviceNode.tag # "devices" \/ deviceNode.list.tag # "device-list"
    THEN appendTo
    ELSE appendDevices(user, deviceNode.list.children, appendTo, [nil |-> TRUE, jid |-> OwnJID])

\* parseDeviceList(user, deviceNode, appendTo, ignore): what *appendTo holds
\* when it returns
parseDeviceList(user, deviceNode, appendTo, ignore) ==
    IF deviceNode.tag # "devices" \/ deviceNode.list.tag # "device-list"
    THEN appendTo
    ELSE appendDevices(user, deviceNode.list.children, appendTo, ignore)

\* GetUserDevices: the loop over the children of the response's list
RECURSIVE collectDevices(_, _, _)
collectDevices(users, devices, ignore) ==
    IF users = <<>> THEN devices
    ELSE LET user == Head(users)
             next == IF user.tag # "user" \/ ~user.jidOK THEN devices
                     ELSE parseDeviceList(user.user, user.devices, devices, ignore)
         IN  collectDevices(Tail(users), next, ignore)

\* an application goroutine about to call GetUserDevices(jids)
DevicesCaller(jids) ==
    [kind |-> "devices", pc |-> "sid", sid |-> NoID, id |-> NoID, chan |-> EmptyChan,
     res |-> NoResult, jids |-> jids, devices |-> <<>>, err |-> FALSE]

\* GetUserDevices, from the return of usync: usync's error (sendIQ failed, or
\* the response has no usync list) is returned, and else the devices
GetUserDevices(c) ==
    /\ callers[c].kind = "devices"
    /\ callers[c].pc = "done"
    /\ callers' = [callers EXCEPT
          ![c].pc = "returned",
          ![c].err = callers[c].res.st # "node" \/ ~callers[c].res.node.list.ok,
          ![c].devices = IF callers[c].res.st # "node" \/ ~callers[c].res.node.list.ok
                         THEN <<>>
                         ELSE collectDevices(callers[c].res.node.list.users, <<>>, StoreIDPtr)]
    /\ UNCHANGED <<sockVars, cliVars, responseWaiters, uniqueID, idCounter>>
    /\ UNCHANGED <<queueVars, busVars, taskVars, arrived, hist, budget>>

\* The queries of the application: the local user, another user, or both
DeviceQueries == {<<"u1">>, <<"u2">>, <<"u1", "u2">>, <<"u2", "u1">>}

\* The children a <device-list> may have: the local device's id, another id,
\* a device whose id is not an integer, and a node that is not a device.
\* The device ids of the protocol are bytes.
DeviceEntries ==
    {[tag |-> "device", ok |-> TRUE, id |-> 1],
     [tag |-> "device", ok |-> TRUE, id |-> 2],
     [tag |-> "device", ok |-> FALSE, id |-> 0],
     [tag |-> "key-index-list", ok |-> TRUE, id |-> 2]}

DeviceList(children) ==
    [tag |-> "devices", list |-> [tag |-> "device-list", children |-> children]]

DevicesNodes ==
    {NoChild, [tag |-> "devices", list |-> NoChild.list]}
    \cup {DeviceList(ch) : ch \in UNION {[1..k -> DeviceEntries] : k \in 0..MaxDeviceEntries}}

AnyDevices == DeviceList(<<[tag |-> "device", ok |-> TRUE, id |-> 2]>>)

\* The children the response's list may have for user u
UserNodes(u) ==
    {[tag |-> "user", jidOK |-> TRUE, user |-> u, devices |-> d] : d \in DevicesNodes}
    \cup {[tag |-> "error", jidOK |-> TRUE, user |-> u, devices |-> AnyDevices],
          [tag |-> "user", jidOK |-> FALSE, user |-> u, devices |-> AnyDevices]}

\* The reply to the usync query with request id id
DeviceReply(id, list) ==
    [tag |-> "iq", id |-> id, code |-> "", conflict |-> "", seq |-> 0, sock |-> 0, list |-> list]

\* The server's answer to the query of caller c, which waits for it: an
\* error, a response without a usync list, or a list with one child per
\* queried user
ServerReplies(c) ==
    /\ callers[c].pc = "wait"
    /\ callers[c].id \in DOMAIN responseWaiters
    /\ \/ Frame(ErrorReply(callers[c].id))
       \/ Frame(DeviceReply(callers[c].id, [ok |-> FALSE, users |-> <<>>]))
       \/ \E a \in UserNodes(callers[c].jids[1]) :
             \/ /\ Len(callers[c].jids) = 1
                /\ Frame(DeviceReply(callers[c].id, [ok |-> TRUE, users |-> <<a>>]))
             \/ /\ Len(callers[c].jids) = 2
                /\ \E b \in UserNodes(callers[c].jids[2]) :
                      Frame(DeviceReply(callers[c].id, [ok |-> TRUE, users |-> <<a, b>>]))

InitDevices ==
    /\ NewClient(OneSession, AnyStore, {TRUE}, MaxDeviceInputs)
    /\ callers \in {<<DevicesCaller(jids)>> : jids \in DeviceQueries}

NextDevices ==
    \/ AppConnectBegin
    \/ AppConnectEnd
    \/ \E c \in DOMAIN callers : usync(c)
    \/ \E c \in DOMAIN callers : sendIQBegin(c)
    \/ \E c \in DOMAIN callers : sendIQSend(c)
    \/ \E c \in DOMAIN callers : sendIQWait(c)
    \/ \E c \in DOMAIN callers : GetUserDevices(c)
    \/ \E c \in DOMAIN callers : ServerReplies(c)

SpecDevices == InitDevices /\ [][NextDevices]_vars

\* the device entries of the response that name a device: (user, id) pairs
\* with their position, for the well-formed users and devices
Listed(users) ==
    {<<i, j>> \in (DOMAIN users) \X (1..MaxDeviceEntries) :
        /\ users[i].tag = "user" /\ users[i].jidOK
        /\ users[i].devices.tag = "devices"
        /\ users[i].devices.list.tag = "device-list"
        /\ j \in DOMAIN users[i].devices.list.children
        /\ users[i].devices.list.children[j].tag = "device"
        /\ users[i].devices.list.children[j].ok}

ListedJID(users, p) ==
    NewADJID(users[p[1]].user, 0, users[p[1]].devices.list.children[p[2]].id)

====
